---- MODULE Spec2Model ----
(***************************************************************************)
(* Model of the synchronisation commands of the Spotify library manager    *)
(* (src/src/cli.py: sync, sync_diff), of the local store they write        *)
(* (src/src/database.py: SpotifyDatabase) and of the remote client calls   *)
(* they consume (src/src/spotify_client.py: SpotifyClient).                *)
(*                                                                         *)
(* A command is a sequence of steps; every remote call and every store     *)
(* write is one step, so that an exception can end the command between any *)
(* two of them.  The store's tables are collections of documents; a        *)
(* document is a function from its keys to values, so that a missing key   *)
(* (no snapshot_id) differs from a present one.  The tables whose documents*)
(* differ whenever they are two rows of the program (tracks, playlists,    *)
(* saved_tracks) are sets; playlist_tracks, in which two rows can be the   *)
(* same document, is a bag.  The two writes of one loop iteration       *)
(* (insert_track, then add_track_to_playlist or add_saved_track) are one   *)
(* step.  Inside a command a paginated client call is one step that        *)
(* returns the whole list; the pages are modelled in SpecClient.            *)
(*                                                                         *)
(* The specifications share the variables.  Spec: the commands from the    *)
(* stores that earlier syncs can have left, against every remote library   *)
(* within the bounds, which does not change.  SpecEvolve: the commands from*)
(* the empty store, against a remote library that changes between them.    *)
(* SpecStore: every sequence of calls of the store's interface on a new    *)
(* store.  SpecQuery, SpecReport, SpecSearch: the queries of the store, the*)
(* duplicate report and the searches on every store within the bounds.     *)
(* SpecClient: the paginated calls of the client, page by page, and the    *)
(* extraction of remote tracks; SpecClientFair adds the fairness of the    *)
(* loop's steps.  SpecFile: two store instances on one backing file.       *)
(* SpecEdit: as SpecEvolve, the remote playlists edited over two tracks.   *)
(* SpecPair: differential sync over two playlists.                         *)
(***************************************************************************)
EXTENDS Integers, Sequences, FiniteSets, Bags, TLC

\* ---------------------------------------------------------------- bounds
NumTracks == 1
NumPlaylists == 1
MaxItems == 2

\* The ids of the stores on which the queries of the store are checked.
NumQueryTracks == 2
NumQueryPlaylists == 2

TrackIds == 1..NumTracks
PlaylistIds == 1..NumPlaylists
\* One playlist more, for the commands that are run over two playlists.
MorePlaylistIds == 1..(NumPlaylists + 1)
Positions == 0..(MaxItems - 1)

\* A remote item whose "track" is null (spotify_client.py: `if trk:`).
Null == 0
\* "No playlist": an id that no playlist has, the target of a store write that
\* concerns no playlist.
NoPlaylist == CHOOSE n \in 0..NumPlaylists : n \notin PlaylistIds
\* Python's None, the result of dict.get on a missing key.
None == "None"
\* Non-empty snapshot markers the remote may report.
Markers == {"s1", "s2"}
\* item.get("snapshot_id", "") in get_user_playlists: empty when absent.
RemoteSnapshots == Markers \cup {""}
\* The added_at value the remote reports, and one stored by an earlier run.
RemoteAddedAt == "new"
OldAddedAt == "old"

\* Python truthiness of a snapshot value.
Truthy(v) == v /= None /\ v /= ""

\* dict.get(key) on a document.
Get(doc, key) == IF key \in DOMAIN doc THEN doc[key] ELSE None

\* dict.update(fields): the keys of fields overwrite, the others remain.
Merge(doc, fields) ==
    [k \in DOMAIN doc \cup DOMAIN fields |->
        IF k \in DOMAIN fields THEN fields[k] ELSE doc[k]]

VARIABLES
    \* the store (SpotifyDatabase): four tables
    tracks, playlists, playlist_tracks, saved_tracks,
    \* the remote library
    remote_saved, remote_playlists,
    \* the running command and its local variables
    pc, cmd, clear, saved_list, pl_list, i, fetched, j,
    updated, skipped, exit_code,
    \* history of the current command
    pre, outcome, fetches, saved_fetches, writes, abort_at,
    \* history of the previous command: the update it was interrupted in, and
    \* whether it was a sync_diff that completed against the remote as it is
    prev_interrupted, prev_completed,
    \* the credentials (config.validate_config), the store handle of the
    \* command (db) and the number of remote calls it has made
    configured, db, calls,
    \* the last call of the store's interface and what it returned
    last_call, result,
    \* a paginated call of the client (SpotifyClient): the method, its position,
    \* the pages the remote serves and the total it reports, whether a progress
    \* callback was given, the method's local variables (collected is the list
    \* it builds), the calls of the callback and the offsets requested
    client_op, client_pc, remote_pages, reported_total, progress_callback,
    offset, next_position, page, pages_total, results, collected,
    progress, requested,
    \* the tracks table in the backing file (db.json), the store instances
    \* opened on it (each with the buffer of its CachingMiddleware) and the
    \* instances in the order in which they were closed
    backing_file, instances, close_order

storeVars == <<tracks, playlists, playlist_tracks, saved_tracks>>
remoteVars == <<remote_saved, remote_playlists>>
localVars == <<saved_list, pl_list, i, fetched, j, updated, skipped>>
histVars == <<pre, outcome, fetches, saved_fetches, writes, abort_at>>
apiVars == <<last_call, result>>
clientVars == <<client_op, client_pc, remote_pages, reported_total,
                progress_callback, offset, next_position, page, pages_total,
                results, collected, progress, requested>>
fileVars == <<backing_file, instances, close_order>>
vars == <<storeVars, remoteVars, pc, cmd, clear, localVars, exit_code,
          histVars, prev_interrupted, prev_completed, configured, db, calls, apiVars, clientVars,
          fileVars>>

\* ------------------------------------------------- the store (database.py)
TrackDoc(t) == [id |-> t]
Rel(p, t, pos) == [playlist_id |-> p, track_id |-> t, position |-> pos]
SavedDoc(t, a) == [track_id |-> t, added_at |-> a]

\* Mutant of insert_track: a row with this id is left as it is.
insert_track_keep_first(tbl, track_data) ==
    IF \E d \in tbl : d.id = track_data.id
    THEN tbl
    ELSE tbl \cup {track_data}

\* Mutant of insert_track: the document is inserted without looking for a row.
insert_track_always(tbl, track_data) == tbl \cup {track_data}

\* SpotifyDatabase.insert_track: update the row with this id, else insert.
insert_track(tbl, track_data) ==
    IF \E d \in tbl : d.id = track_data.id
    THEN {IF d.id = track_data.id THEN Merge(d, track_data) ELSE d : d \in tbl}
    ELSE tbl \cup {track_data}

\* What a call of the store's interface gives back when it raises.
Raised == [exception |-> "IndexError"]

\* Mutant of get_track: the first element of the search result, which does
\* not exist when no row has the id.
get_track_first_match(tbl, track_id) ==
    IF \E d \in tbl : d.id = track_id
    THEN CHOOSE d \in tbl : d.id = track_id
    ELSE Raised

\* SpotifyDatabase.get_track: the row with this id, or None (the empty
\* document, see get_playlist).
get_track(tbl, track_id) ==
    IF \E d \in tbl : d.id = track_id
    THEN CHOOSE d \in tbl : d.id = track_id
    ELSE <<>>

\* Mutant of insert_playlist: the row is replaced by the new document, so the
\* keys the new document lacks are lost.
insert_playlist_replace(tbl, playlist_data) ==
    {d \in tbl : d.id /= playlist_data.id} \cup {playlist_data}

\* SpotifyDatabase.insert_playlist: update the row with this id, else insert.
insert_playlist(tbl, playlist_data) ==
    IF \E d \in tbl : d.id = playlist_data.id
    THEN {IF d.id = playlist_data.id THEN Merge(d, playlist_data) ELSE d : d \in tbl}
    ELSE tbl \cup {playlist_data}

\* SpotifyDatabase.get_playlist: the row with this id, or the empty document
\* (which, like Python's None, is falsy and has no snapshot_id).
get_playlist(tbl, playlist_id) ==
    IF \E d \in tbl : d.id = playlist_id
    THEN CHOOSE d \in tbl : d.id = playlist_id
    ELSE <<>>

\* Python truthiness of the result of get_playlist.
Found(doc) == DOMAIN doc /= {}

\* SpotifyDatabase.set_playlist_snapshot: update only snapshot_id.
set_playlist_snapshot(tbl, playlist_id, snapshot_id) ==
    {IF d.id = playlist_id THEN Merge(d, [snapshot_id |-> snapshot_id]) ELSE d
        : d \in tbl}

\* Table.insert on the relationship table: one more row.
insert_row(tbl, row) == tbl (+) SetToBag({row})

\* Table.search(Query()[field] == value) on the relationship table: the rows
\* that match, each as often as the table holds it.
search_rows(tbl, field, value) ==
    [r \in {x \in BagToSet(tbl) : x[field] = value} |-> tbl[r]]

\* Table.remove(Query()[field] == value) on the relationship table: the rows
\* that do not match remain.
remove_rows(tbl, field, value) ==
    [r \in {x \in BagToSet(tbl) : x[field] /= value} |-> tbl[r]]

\* Mutant of add_track_to_playlist: the row is inserted without looking for
\* the triple.
add_track_to_playlist_always(tbl, playlist_id, track_id, position) ==
    insert_row(tbl, Rel(playlist_id, track_id, position))

\* SpotifyDatabase.add_track_to_playlist: insert unless the triple exists.
add_track_to_playlist(tbl, playlist_id, track_id, position) ==
    IF \E r \in BagToSet(tbl) : /\ r.playlist_id = playlist_id
                                /\ r.track_id = track_id
                                /\ r.position = position
    THEN tbl
    ELSE insert_row(tbl, Rel(playlist_id, track_id, position))

\* Mutant of clear_playlist_tracks: the rows of every playlist are removed.
clear_playlist_tracks_of_all(tbl, playlist_id) == EmptyBag

\* SpotifyDatabase.clear_playlist_tracks.
clear_playlist_tracks(tbl, playlist_id) ==
    remove_rows(tbl, "playlist_id", playlist_id)

\* SpotifyDatabase.get_playlist_track_count.
get_playlist_track_count(tbl, playlist_id) ==
    BagCardinality(search_rows(tbl, "playlist_id", playlist_id))

\* Mutant of add_saved_track: the marker of the track is replaced.
add_saved_track_upsert(tbl, track_id, added_at) ==
    {s \in tbl : s.track_id /= track_id} \cup {SavedDoc(track_id, added_at)}

\* SpotifyDatabase.add_saved_track: insert unless the track has a marker.
add_saved_track(tbl, track_id, added_at) ==
    IF \E s \in tbl : s.track_id = track_id
    THEN tbl
    ELSE tbl \cup {SavedDoc(track_id, added_at)}

\* SpotifyDatabase.get_saved_tracks_count.
get_saved_tracks_count(tbl) == Cardinality(tbl)

\* Table.truncate(), as used by clear_all and clear_saved_tracks.
truncate(tbl) == {}
\* The same on the relationship table.
truncate_rows(tbl) == EmptyBag

\* ------------------------------------------ the client (spotify_client.py)
\* SpotifyClient.get_playlist_tracks: one (track_data, position) per item
\* with a track; the position counts every item.
client_get_playlist_tracks(items) ==
    LET F[k \in 0..Len(items)] ==
            IF k = 0 THEN <<>>
            ELSE IF items[k] /= Null
                 THEN Append(F[k - 1],
                             [track |-> TrackDoc(items[k]), position |-> k - 1])
                 ELSE F[k - 1]
    IN F[Len(items)]

\* SpotifyClient.get_saved_tracks: track_data plus added_at per item with a track.
client_get_saved_tracks(items) ==
    LET F[k \in 0..Len(items)] ==
            IF k = 0 THEN <<>>
            ELSE IF items[k] /= Null
                 THEN Append(F[k - 1],
                             [track |-> TrackDoc(items[k]), added_at |-> RemoteAddedAt])
                 ELSE F[k - 1]
    IN F[Len(items)]

\* SpotifyClient.get_saved_tracks_total: the remote "total".
client_get_saved_tracks_total(items) == Len(items)

\* The ids of a set, ascending: the order of the remote listing.
RECURSIVE Ascending(_)
Ascending(S) ==
    IF S = {} THEN <<>>
    ELSE LET m == CHOOSE x \in S : \A y \in S : x <= y
         IN <<m>> \o Ascending(S \ {m})

\* SpotifyClient.get_user_playlists: id, snapshot_id and tracks_total per playlist.
client_get_user_playlists(remote) ==
    LET ids == Ascending(DOMAIN remote)
    IN [k \in 1..Len(ids) |->
           [id |-> ids[k],
            snapshot_id |-> remote[ids[k]].snapshot_id,
            tracks_total |-> Len(remote[ids[k]].items)]]

\* --------------------------------------------------------- initial states
\* Remote item lists: a track id or a null track per item.
ItemSeqs == UNION {[1..n -> TrackIds \cup {Null}] : n \in 0..MaxItems}

\* The saved-tracks library holds a track at most once.
SavedItemSeqs ==
    {s \in ItemSeqs :
        \A a, b \in 1..Len(s) : (a /= b /\ s[a] /= Null) => s[a] /= s[b]}

RemotePlaylistStates == [snapshot_id : RemoteSnapshots, items : ItemSeqs]

RemoteListings ==
    UNION {[D -> RemotePlaylistStates] : D \in SUBSET PlaylistIds}

\* A stored playlist document: without snapshot_id, or with a marker.
PlaylistDoc(p, snap) ==
    IF snap = None THEN [id |-> p] ELSE [id |-> p, snapshot_id |-> snap]

LocalPlaylistTables ==
    UNION {{{PlaylistDoc(p, f[p]) : p \in D} : f \in [D -> Markers \cup {None}]}
              : D \in SUBSET PlaylistIds}

\* No update of a playlist was interrupted by the previous command.
NoInterrupt == [playlist_id |-> NoPlaylist, at |-> "", j |-> 0]

NoPre == [tracks |-> {}, playlists |-> {}, playlist_tracks |-> EmptyBag,
          saved_tracks |-> {}]

\* The processes that can open the store on the same file.
Processes == {"first", "second"}
\* A process that has not constructed its SpotifyDatabase.
Unopened == [state |-> "none", loaded |-> FALSE, cache |-> {},
             modified |-> FALSE, inserted |-> {}]

\* pages_total = None: the total is read from the first page.
NoPages == 0
\* A page without items and without next link.
NoPage == [items |-> <<>>, next |-> FALSE]

\* The command's variables between two commands; no client call is running.
Idle ==
    /\ pc = "idle" /\ cmd = "" /\ clear = FALSE
    /\ saved_list = <<>> /\ pl_list = <<>> /\ i = 0 /\ fetched = <<>> /\ j = 0
    /\ updated = 0 /\ skipped = 0 /\ exit_code = 0
    /\ pre = NoPre
    /\ outcome = [p \in MorePlaylistIds |-> "none"]
    /\ fetches = [p \in MorePlaylistIds |-> 0]
    /\ saved_fetches = 0 /\ writes = <<>> /\ abort_at = ""
    /\ db = "none" /\ calls = 0
    /\ prev_completed = FALSE
    /\ client_op = "" /\ client_pc = "none"
    /\ remote_pages = <<>> /\ reported_total = 0 /\ progress_callback = FALSE
    /\ offset = 0 /\ next_position = 0 /\ page = 0 /\ pages_total = NoPages
    /\ results = NoPage /\ collected = <<>>
    /\ progress = <<>> /\ requested = <<>>
    /\ backing_file = {}
    /\ instances = [k \in Processes |-> Unopened]
    /\ close_order = <<>>

\* No call of the store's interface has been made from outside a command.
NoCall == [op |-> "none"]
NoResult == [value |-> <<>>]

\* The store as earlier syncs against earlier remote states can have left it:
\* ids are unique and every reference has a row.
Init ==
    /\ \E S \in SUBSET TrackIds :
        /\ tracks = {TrackDoc(t) : t \in S}
        /\ \E V \in SUBSET S : saved_tracks = {SavedDoc(t, OldAddedAt) : t \in V}
        /\ playlists \in LocalPlaylistTables
        /\ \E R \in SUBSET {Rel(d.id, t, pos) :
                                d \in playlists, t \in S, pos \in Positions} :
              playlist_tracks = SetToBag(R)
    /\ remote_saved \in SavedItemSeqs
    /\ remote_playlists \in RemoteListings
    /\ prev_interrupted = NoInterrupt
    /\ configured \in BOOLEAN
    /\ last_call = NoCall /\ result = NoResult
    /\ Idle

\* ------------------------------------------------------ command plumbing
InPass == pc \notin {"idle", "done", "failed", "exited"}

\* The playlist of the current iteration of `for i, playlist in enumerate(playlists, 1)`.
cur == pl_list[i]

\* Mutant of pl_no_snap: the snapshot_id is not popped.
pl_with_snap(playlist) == [id |-> playlist.id, snapshot_id |-> playlist.snapshot_id]

\* pl_no_snap: dict(playlist) with snapshot_id popped (the other metadata
\* fields carry no decision of the command and are left out of the documents).
pl_no_snap(playlist) == [id |-> playlist.id]

Logged(op, p) == writes' = Append(writes, [op |-> op, playlist_id |-> p])

\* The end of one loop iteration: the next playlist, or the end of the command.
NextPlaylist(first) ==
    /\ i' = i + 1
    /\ pc' = IF i = Len(pl_list) THEN "done" ELSE first

\* A step that makes one call of the remote client, or none.
RemoteCall == calls' = calls + 1
NoRemoteCall == calls' = calls

\* `finally: db.close()` runs when the command ends; until then the store of
\* the command stays open.
StoreClosedAtEnd == db' = IF pc' = "done" THEN "closed" ELSE db
StoreStaysOpen == db' = db

\* Mutant of Start: the command does not validate the credentials first.
Start_NoValidation(c, cl, first) ==
    /\ pc = "idle"
    /\ cmd' = c
    /\ clear' = cl
    /\ configured' \in BOOLEAN
    /\ pc' = first
    /\ exit_code' = 0
    /\ db' = "open"
    /\ pre' = [tracks |-> tracks, playlists |-> playlists,
               playlist_tracks |-> playlist_tracks, saved_tracks |-> saved_tracks]
    /\ UNCHANGED <<storeVars, remoteVars, localVars, prev_interrupted, prev_completed,
                   outcome, fetches, saved_fetches, writes, abort_at,
                   calls, apiVars, clientVars,
                   fileVars>>

\* The command starts: `if not config.validate_config(): sys.exit(1)`, then
\* `client = SpotifyClient(); db = SpotifyDatabase()`.  The credentials are
\* what the environment holds when the command starts.
Start(c, cl, first) ==
    /\ pc = "idle"
    /\ cmd' = c
    /\ clear' = cl
    /\ configured' \in BOOLEAN
    /\ IF configured'
       THEN /\ pc' = first
            /\ exit_code' = 0
            /\ db' = "open"
            /\ pre' = [tracks |-> tracks, playlists |-> playlists,
                       playlist_tracks |-> playlist_tracks,
                       saved_tracks |-> saved_tracks]
       ELSE /\ pc' = "exited"
            /\ exit_code' = 1
            /\ db' = db
            /\ pre' = pre
    /\ UNCHANGED <<storeVars, remoteVars, localVars, prev_interrupted, prev_completed,
                   outcome, fetches, saved_fetches, writes, abort_at,
                   calls, apiVars, clientVars,
                   fileVars>>

\* ------------------------------------------- cli.py: sync_diff (lines 49-176)
DiffStart == Start("sync_diff", FALSE, "d_user")

\* user = client.get_current_user()
DiffGetUser ==
    /\ pc = "d_user"
    /\ pc' = "d_total"
    /\ UNCHANGED <<storeVars, remoteVars, cmd, clear, localVars, exit_code,
                   histVars, prev_interrupted, prev_completed, configured, apiVars, clientVars,
                   fileVars>>
    /\ RemoteCall
    /\ StoreStaysOpen

\* Mutant of DiffCompareSaved: refresh only when the remote holds more.
DiffCompareSaved_OnlyWhenMore ==
    /\ pc = "d_total"
    /\ LET remote_total == client_get_saved_tracks_total(remote_saved)
           local_total == get_saved_tracks_count(saved_tracks)
       IN pc' = IF remote_total > local_total THEN "d_fetch_saved" ELSE "d_playlists"
    /\ UNCHANGED <<storeVars, remoteVars, cmd, clear, localVars, exit_code,
                   histVars, prev_interrupted, prev_completed, configured, apiVars, clientVars,
                   fileVars>>
    /\ RemoteCall
    /\ StoreStaysOpen

\* remote_total / local_total and `if remote_total != local_total`
DiffCompareSaved ==
    /\ pc = "d_total"
    /\ LET remote_total == client_get_saved_tracks_total(remote_saved)
           local_total == get_saved_tracks_count(saved_tracks)
       IN pc' = IF remote_total /= local_total THEN "d_fetch_saved" ELSE "d_playlists"
    /\ UNCHANGED <<storeVars, remoteVars, cmd, clear, localVars, exit_code,
                   histVars, prev_interrupted, prev_completed, configured, apiVars, clientVars,
                   fileVars>>
    /\ RemoteCall
    /\ StoreStaysOpen

\* saved_tracks = client.get_saved_tracks(...)
DiffFetchSaved ==
    /\ pc = "d_fetch_saved"
    /\ saved_list' = client_get_saved_tracks(remote_saved)
    /\ saved_fetches' = saved_fetches + 1
    /\ pc' = "d_clear_saved"
    /\ UNCHANGED <<storeVars, remoteVars, cmd, clear, pl_list, i, fetched, j,
                   updated, skipped, exit_code, pre, outcome, fetches, writes,
                   abort_at, prev_interrupted, prev_completed, configured, apiVars, clientVars,
                   fileVars>>
    /\ RemoteCall
    /\ StoreStaysOpen

\* db.clear_saved_tracks()
DiffClearSaved ==
    /\ pc = "d_clear_saved"
    /\ saved_tracks' = truncate(saved_tracks)
    /\ Logged("clear_saved_tracks", NoPlaylist)
    /\ j' = 1
    /\ pc' = IF Len(saved_list) = 0 THEN "d_playlists" ELSE "d_write_saved"
    /\ UNCHANGED <<tracks, playlists, playlist_tracks, remoteVars, cmd, clear,
                   saved_list, pl_list, i, fetched, updated, skipped, exit_code,
                   pre, outcome, fetches, saved_fetches, abort_at, prev_interrupted, prev_completed, configured, apiVars, clientVars,
                   fileVars>>
    /\ NoRemoteCall
    /\ StoreStaysOpen

\* for t in saved_tracks: db.insert_track(t); db.add_saved_track(t['id'], added_at)
DiffWriteSaved ==
    /\ pc = "d_write_saved"
    /\ tracks' = insert_track(tracks, saved_list[j].track)
    /\ saved_tracks' = add_saved_track(saved_tracks, saved_list[j].track.id,
                                       saved_list[j].added_at)
    /\ Logged("add_saved_track", NoPlaylist)
    /\ j' = j + 1
    /\ pc' = IF j = Len(saved_list) THEN "d_playlists" ELSE "d_write_saved"
    /\ UNCHANGED <<playlists, playlist_tracks, remoteVars, cmd, clear,
                   saved_list, pl_list, i, fetched, updated, skipped, exit_code,
                   pre, outcome, fetches, saved_fetches, abort_at, prev_interrupted, prev_completed, configured, apiVars, clientVars,
                   fileVars>>
    /\ NoRemoteCall
    /\ StoreStaysOpen

\* playlists = client.get_user_playlists(...); updated = 0; skipped = 0
DiffGetPlaylists ==
    /\ pc = "d_playlists"
    /\ pl_list' = client_get_user_playlists(remote_playlists)
    /\ i' = 1
    /\ pc' = IF Len(pl_list') = 0 THEN "done" ELSE "d_check"
    /\ UNCHANGED <<storeVars, remoteVars, cmd, clear, saved_list, fetched, j,
                   updated, skipped, exit_code, histVars, prev_interrupted, prev_completed, configured, apiVars, clientVars,
                   fileVars>>
    /\ RemoteCall
    /\ StoreClosedAtEnd

\* Mutant of DiffSkips: equal snapshots skip only when the counts agree too.
DiffSkips_AlsoCount(playlist) ==
    LET local_pl == get_playlist(playlists, playlist.id)
        same_count == get_playlist_track_count(playlist_tracks, playlist.id)
                          = playlist.tracks_total
    IN IF /\ Found(local_pl)
          /\ Truthy(Get(local_pl, "snapshot_id"))
          /\ Truthy(playlist.snapshot_id)
       THEN local_pl.snapshot_id = playlist.snapshot_id /\ same_count
       ELSE same_count /\ Found(local_pl)

\* Mutant of DiffSkips: the count fallback forgets `and local_pl`.
DiffSkips_NoRecordCheck(playlist) ==
    LET local_pl == get_playlist(playlists, playlist.id)
    IN IF /\ Found(local_pl)
          /\ Truthy(Get(local_pl, "snapshot_id"))
          /\ Truthy(playlist.snapshot_id)
       THEN local_pl.snapshot_id = playlist.snapshot_id
       ELSE get_playlist_track_count(playlist_tracks, playlist.id)
                = playlist.tracks_total

\* The test of lines 116-126: skip on equal non-empty snapshots, else on
\* equal counts when a local record exists.
DiffSkips(playlist) ==
    LET local_pl == get_playlist(playlists, playlist.id)
    IN IF /\ Found(local_pl)
          /\ Truthy(Get(local_pl, "snapshot_id"))
          /\ Truthy(playlist.snapshot_id)
       THEN local_pl.snapshot_id = playlist.snapshot_id
       ELSE /\ get_playlist_track_count(playlist_tracks, playlist.id)
                  = playlist.tracks_total
            /\ Found(local_pl)

DiffCheck ==
    /\ pc = "d_check"
    /\ IF DiffSkips(cur)
       THEN /\ skipped' = skipped + 1
            /\ outcome' = [outcome EXCEPT ![cur.id] = "skipped"]
            /\ NextPlaylist("d_check")
       ELSE /\ pc' = "d_insert_pl"
            /\ UNCHANGED <<skipped, outcome, i>>
    /\ UNCHANGED <<storeVars, remoteVars, cmd, clear, saved_list, pl_list,
                   fetched, j, updated, exit_code, pre, fetches, saved_fetches,
                   writes, abort_at, prev_interrupted, prev_completed, configured, apiVars, clientVars,
                   fileVars>>
    /\ NoRemoteCall
    /\ StoreClosedAtEnd

\* Mutant of DiffInsertPlaylist: the membership is fetched for an empty playlist too.
DiffInsertPlaylist_AlwaysFetch ==
    /\ pc = "d_insert_pl"
    /\ playlists' = insert_playlist(playlists, pl_no_snap(cur))
    /\ Logged("insert_playlist", cur.id)
    /\ pc' = "d_fetch"
    /\ UNCHANGED <<tracks, playlist_tracks, saved_tracks, remoteVars, cmd, clear,
                   localVars, exit_code, pre, outcome, fetches, saved_fetches,
                   abort_at, prev_interrupted, prev_completed, configured, apiVars, clientVars,
                   fileVars>>
    /\ NoRemoteCall
    /\ StoreStaysOpen

\* db.insert_playlist(pl_no_snap); `if playlist['tracks_total'] > 0`
DiffInsertPlaylist ==
    /\ pc = "d_insert_pl"
    /\ playlists' = insert_playlist(playlists, pl_no_snap(cur))
    /\ Logged("insert_playlist", cur.id)
    /\ pc' = IF cur.tracks_total > 0 THEN "d_fetch" ELSE "d_snapshot"
    /\ UNCHANGED <<tracks, playlist_tracks, saved_tracks, remoteVars, cmd, clear,
                   localVars, exit_code, pre, outcome, fetches, saved_fetches,
                   abort_at, prev_interrupted, prev_completed, configured, apiVars, clientVars,
                   fileVars>>
    /\ NoRemoteCall
    /\ StoreStaysOpen

\* playlist_tracks = client.get_playlist_tracks(playlist['id'], ...)
DiffFetchTracks ==
    /\ pc = "d_fetch"
    /\ fetched' = client_get_playlist_tracks(remote_playlists[cur.id].items)
    /\ fetches' = [fetches EXCEPT ![cur.id] = @ + 1]
    /\ pc' = "d_clear"
    /\ UNCHANGED <<storeVars, remoteVars, cmd, clear, saved_list, pl_list, i, j,
                   updated, skipped, exit_code, pre, outcome, saved_fetches,
                   writes, abort_at, prev_interrupted, prev_completed, configured, apiVars, clientVars,
                   fileVars>>
    /\ RemoteCall
    /\ StoreStaysOpen

\* db.clear_playlist_tracks(playlist['id'])
DiffClearTracks ==
    /\ pc = "d_clear"
    /\ playlist_tracks' = clear_playlist_tracks(playlist_tracks, cur.id)
    /\ Logged("clear_playlist_tracks", cur.id)
    /\ j' = 1
    /\ pc' = IF Len(fetched) = 0 THEN "d_snapshot" ELSE "d_save"
    /\ UNCHANGED <<tracks, playlists, saved_tracks, remoteVars, cmd, clear,
                   saved_list, pl_list, i, fetched, updated, skipped, exit_code,
                   pre, outcome, fetches, saved_fetches, abort_at, prev_interrupted, prev_completed, configured, apiVars, clientVars,
                   fileVars>>
    /\ NoRemoteCall
    /\ StoreStaysOpen

\* for track_data, position in playlist_tracks: insert_track; add_track_to_playlist
DiffSaveTrack ==
    /\ pc = "d_save"
    /\ tracks' = insert_track(tracks, fetched[j].track)
    /\ playlist_tracks' = add_track_to_playlist(playlist_tracks, cur.id,
                              fetched[j].track.id, fetched[j].position)
    /\ Logged("add_track_to_playlist", cur.id)
    /\ j' = j + 1
    /\ pc' = IF j = Len(fetched) THEN "d_snapshot" ELSE "d_save"
    /\ UNCHANGED <<playlists, saved_tracks, remoteVars, cmd, clear,
                   saved_list, pl_list, i, fetched, updated, skipped, exit_code,
                   pre, outcome, fetches, saved_fetches, abort_at, prev_interrupted, prev_completed, configured, apiVars, clientVars,
                   fileVars>>
    /\ NoRemoteCall
    /\ StoreStaysOpen

\* Mutant of DiffCommitSnapshot: a playlist without marker is not counted.
DiffCommitSnapshot_CountWhenMarked ==
    /\ pc = "d_snapshot"
    /\ IF Truthy(cur.snapshot_id)
       THEN /\ playlists' = set_playlist_snapshot(playlists, cur.id, cur.snapshot_id)
            /\ Logged("set_playlist_snapshot", cur.id)
            /\ updated' = updated + 1
       ELSE UNCHANGED <<playlists, writes, updated>>
    /\ outcome' = [outcome EXCEPT ![cur.id] = "updated"]
    /\ NextPlaylist("d_check")
    /\ UNCHANGED <<tracks, playlist_tracks, saved_tracks, remoteVars, cmd, clear,
                   saved_list, pl_list, fetched, j, skipped, exit_code,
                   pre, fetches, saved_fetches, abort_at, prev_interrupted, prev_completed,
                   configured, apiVars, clientVars, fileVars>>
    /\ NoRemoteCall
    /\ StoreClosedAtEnd

\* if playlist.get('snapshot_id'): db.set_playlist_snapshot(...); updated += 1
DiffCommitSnapshot ==
    /\ pc = "d_snapshot"
    /\ IF Truthy(cur.snapshot_id)
       THEN /\ playlists' = set_playlist_snapshot(playlists, cur.id, cur.snapshot_id)
            /\ Logged("set_playlist_snapshot", cur.id)
       ELSE UNCHANGED <<playlists, writes>>
    /\ updated' = updated + 1
    /\ outcome' = [outcome EXCEPT ![cur.id] = "updated"]
    /\ NextPlaylist("d_check")
    /\ UNCHANGED <<tracks, playlist_tracks, saved_tracks, remoteVars, cmd, clear,
                   saved_list, pl_list, fetched, j, skipped, exit_code,
                   pre, fetches, saved_fetches, abort_at, prev_interrupted, prev_completed, configured, apiVars, clientVars,
                   fileVars>>
    /\ NoRemoteCall
    /\ StoreClosedAtEnd

\* ------------------------------------------------ cli.py: sync (lines 235-372)
SyncStart == \E cl \in BOOLEAN : Start("sync", cl, IF cl THEN "s_clear" ELSE "s_user")

\* Mutant of clear_all: the saved markers are not truncated.
clear_all_keeps_saved(store) ==
    [tracks |-> truncate(store.tracks),
     playlists |-> truncate(store.playlists),
     playlist_tracks |-> truncate_rows(store.playlist_tracks),
     saved_tracks |-> store.saved_tracks]

\* Mutant of clear_all: the relationship rows are not truncated.
clear_all_keeps_rows(store) ==
    [tracks |-> truncate(store.tracks),
     playlists |-> truncate(store.playlists),
     playlist_tracks |-> store.playlist_tracks,
     saved_tracks |-> truncate(store.saved_tracks)]

\* SpotifyDatabase.clear_all: truncate the four tables.
clear_all(store) ==
    [tracks |-> truncate(store.tracks),
     playlists |-> truncate(store.playlists),
     playlist_tracks |-> truncate_rows(store.playlist_tracks),
     saved_tracks |-> truncate(store.saved_tracks)]

\* if clear: db.clear_all()
SyncClearAll ==
    /\ pc = "s_clear"
    /\ LET cleared == clear_all([tracks |-> tracks, playlists |-> playlists,
                                 playlist_tracks |-> playlist_tracks,
                                 saved_tracks |-> saved_tracks])
       IN /\ tracks' = cleared.tracks
          /\ playlists' = cleared.playlists
          /\ playlist_tracks' = cleared.playlist_tracks
          /\ saved_tracks' = cleared.saved_tracks
    /\ Logged("clear_all", NoPlaylist)
    /\ pc' = "s_user"
    /\ UNCHANGED <<remoteVars, cmd, clear, localVars, exit_code,
                   pre, outcome, fetches, saved_fetches, abort_at, prev_interrupted, prev_completed, configured, apiVars, clientVars,
                   fileVars>>
    /\ NoRemoteCall
    /\ StoreStaysOpen

\* user = client.get_current_user()
SyncGetUser ==
    /\ pc = "s_user"
    /\ pc' = "s_saved"
    /\ UNCHANGED <<storeVars, remoteVars, cmd, clear, localVars, exit_code,
                   histVars, prev_interrupted, prev_completed, configured, apiVars, clientVars,
                   fileVars>>
    /\ RemoteCall
    /\ StoreStaysOpen

\* saved_tracks = client.get_saved_tracks(...)
SyncFetchSaved ==
    /\ pc = "s_saved"
    /\ saved_list' = client_get_saved_tracks(remote_saved)
    /\ saved_fetches' = saved_fetches + 1
    /\ j' = 1
    /\ pc' = IF Len(saved_list') = 0 THEN "s_playlists" ELSE "s_write_saved"
    /\ UNCHANGED <<storeVars, remoteVars, cmd, clear, pl_list, i, fetched,
                   updated, skipped, exit_code, pre, outcome, fetches, writes,
                   abort_at, prev_interrupted, prev_completed, configured, apiVars, clientVars,
                   fileVars>>
    /\ RemoteCall
    /\ StoreStaysOpen

\* for track in saved_tracks: db.insert_track(track); db.add_saved_track(...)
SyncWriteSaved ==
    /\ pc = "s_write_saved"
    /\ tracks' = insert_track(tracks, saved_list[j].track)
    /\ saved_tracks' = add_saved_track(saved_tracks, saved_list[j].track.id,
                                       saved_list[j].added_at)
    /\ Logged("add_saved_track", NoPlaylist)
    /\ j' = j + 1
    /\ pc' = IF j = Len(saved_list) THEN "s_playlists" ELSE "s_write_saved"
    /\ UNCHANGED <<playlists, playlist_tracks, remoteVars, cmd, clear,
                   saved_list, pl_list, i, fetched, updated, skipped, exit_code,
                   pre, outcome, fetches, saved_fetches, abort_at, prev_interrupted, prev_completed, configured, apiVars, clientVars,
                   fileVars>>
    /\ NoRemoteCall
    /\ StoreStaysOpen

\* playlists = client.get_user_playlists(...)
SyncGetPlaylists ==
    /\ pc = "s_playlists"
    /\ pl_list' = client_get_user_playlists(remote_playlists)
    /\ i' = 1
    /\ pc' = IF Len(pl_list') = 0 THEN "done" ELSE "s_insert_pl"
    /\ UNCHANGED <<storeVars, remoteVars, cmd, clear, saved_list, fetched, j,
                   updated, skipped, exit_code, histVars, prev_interrupted, prev_completed, configured, apiVars, clientVars,
                   fileVars>>
    /\ RemoteCall
    /\ StoreClosedAtEnd

\* db.insert_playlist(pl_no_snap); `if playlist['tracks_total'] > 0`
SyncInsertPlaylist ==
    /\ pc = "s_insert_pl"
    /\ playlists' = insert_playlist(playlists, pl_no_snap(cur))
    /\ Logged("insert_playlist", cur.id)
    /\ pc' = IF cur.tracks_total > 0 THEN "s_fetch" ELSE "s_snapshot"
    /\ UNCHANGED <<tracks, playlist_tracks, saved_tracks, remoteVars, cmd, clear,
                   localVars, exit_code, pre, outcome, fetches, saved_fetches,
                   abort_at, prev_interrupted, prev_completed, configured, apiVars, clientVars,
                   fileVars>>
    /\ NoRemoteCall
    /\ StoreStaysOpen

\* playlist_tracks = client.get_playlist_tracks(playlist['id'], ...)
SyncFetchTracks ==
    /\ pc = "s_fetch"
    /\ fetched' = client_get_playlist_tracks(remote_playlists[cur.id].items)
    /\ fetches' = [fetches EXCEPT ![cur.id] = @ + 1]
    /\ j' = 1
    /\ pc' = IF Len(fetched') = 0 THEN "s_snapshot" ELSE "s_save"
    /\ UNCHANGED <<storeVars, remoteVars, cmd, clear, saved_list, pl_list, i,
                   updated, skipped, exit_code, pre, outcome, saved_fetches,
                   writes, abort_at, prev_interrupted, prev_completed, configured, apiVars, clientVars,
                   fileVars>>
    /\ RemoteCall
    /\ StoreStaysOpen

\* for track_data, position in playlist_tracks: insert_track; add_track_to_playlist
SyncSaveTrack ==
    /\ pc = "s_save"
    /\ tracks' = insert_track(tracks, fetched[j].track)
    /\ playlist_tracks' = add_track_to_playlist(playlist_tracks, cur.id,
                              fetched[j].track.id, fetched[j].position)
    /\ Logged("add_track_to_playlist", cur.id)
    /\ j' = j + 1
    /\ pc' = IF j = Len(fetched) THEN "s_snapshot" ELSE "s_save"
    /\ UNCHANGED <<playlists, saved_tracks, remoteVars, cmd, clear,
                   saved_list, pl_list, i, fetched, updated, skipped, exit_code,
                   pre, outcome, fetches, saved_fetches, abort_at, prev_interrupted, prev_completed, configured, apiVars, clientVars,
                   fileVars>>
    /\ NoRemoteCall
    /\ StoreStaysOpen

\* if playlist.get('snapshot_id'): db.set_playlist_snapshot(...)
SyncCommitSnapshot ==
    /\ pc = "s_snapshot"
    /\ IF Truthy(cur.snapshot_id)
       THEN /\ playlists' = set_playlist_snapshot(playlists, cur.id, cur.snapshot_id)
            /\ Logged("set_playlist_snapshot", cur.id)
       ELSE UNCHANGED <<playlists, writes>>
    /\ outcome' = [outcome EXCEPT ![cur.id] = "updated"]
    /\ NextPlaylist("s_insert_pl")
    /\ UNCHANGED <<tracks, playlist_tracks, saved_tracks, remoteVars, cmd, clear,
                   saved_list, pl_list, fetched, j, updated, skipped, exit_code,
                   pre, fetches, saved_fetches, abort_at, prev_interrupted, prev_completed, configured, apiVars, clientVars,
                   fileVars>>
    /\ NoRemoteCall
    /\ StoreClosedAtEnd

\* ------------------------------------------------- failure and command end
\* Mutant of Abort: the writes of the command are rolled back.
Abort_Rollback ==
    /\ InPass
    /\ pc' = "failed"
    /\ exit_code' = 1
    /\ abort_at' = pc
    /\ db' = "closed"
    /\ tracks' = pre.tracks /\ playlists' = pre.playlists
    /\ playlist_tracks' = pre.playlist_tracks /\ saved_tracks' = pre.saved_tracks
    /\ UNCHANGED <<remoteVars, cmd, clear, localVars,
                   pre, outcome, fetches, saved_fetches, writes, prev_interrupted, prev_completed,
                   configured, calls, apiVars, clientVars,
                   fileVars>>

\* except Exception: exit_code = 1; finally: db.close(); sys.exit(exit_code).
\* The exception may come at any step; what was written stays written.
Abort ==
    /\ InPass
    /\ pc' = "failed"
    /\ exit_code' = 1
    /\ abort_at' = pc
    /\ db' = "closed"
    /\ UNCHANGED <<storeVars, remoteVars, cmd, clear, localVars,
                   pre, outcome, fetches, saved_fetches, writes, prev_interrupted, prev_completed,
                   configured, calls, apiVars, clientVars,
                   fileVars>>

\* The points of a differential update of a playlist at which its old rows
\* may be gone and its new rows incomplete: the membership fetch, and the
\* inserts after clear_playlist_tracks.
InterruptedUpdate ==
    /\ cmd = "sync_diff" /\ pc = "failed"
    /\ \/ abort_at \in {"d_fetch", "d_clear", "d_save"}
       \/ abort_at = "d_snapshot" /\ cur.tracks_total > 0 /\ fetched = <<>>

\* The process has exited; the next command starts from the store it left.
Finish ==
    /\ pc \in {"done", "failed", "exited"}
    /\ prev_interrupted' = IF InterruptedUpdate
                           THEN [playlist_id |-> cur.id, at |-> abort_at, j |-> j]
                           ELSE NoInterrupt
    /\ prev_completed' = (cmd = "sync_diff" /\ pc = "done")
    /\ pc' = "idle" /\ cmd' = "" /\ clear' = FALSE
    /\ saved_list' = <<>> /\ pl_list' = <<>> /\ i' = 0 /\ fetched' = <<>> /\ j' = 0
    /\ updated' = 0 /\ skipped' = 0 /\ exit_code' = 0
    /\ pre' = NoPre
    /\ outcome' = [p \in MorePlaylistIds |-> "none"]
    /\ fetches' = [p \in MorePlaylistIds |-> 0]
    /\ saved_fetches' = 0 /\ writes' = <<>> /\ abort_at' = ""
    /\ db' = "none" /\ calls' = 0
    /\ UNCHANGED <<storeVars, remoteVars, configured, apiVars, clientVars,
                   fileVars>>

Next ==
    \/ DiffStart \/ DiffGetUser \/ DiffCompareSaved \/ DiffFetchSaved
    \/ DiffClearSaved \/ DiffWriteSaved \/ DiffGetPlaylists \/ DiffCheck
    \/ DiffInsertPlaylist \/ DiffFetchTracks \/ DiffClearTracks
    \/ DiffSaveTrack \/ DiffCommitSnapshot
    \/ SyncStart \/ SyncClearAll \/ SyncGetUser \/ SyncFetchSaved
    \/ SyncWriteSaved \/ SyncGetPlaylists \/ SyncInsertPlaylist
    \/ SyncFetchTracks \/ SyncSaveTrack \/ SyncCommitSnapshot
    \/ Abort \/ Finish

Spec == Init /\ [][Next]_vars

\* ------------------------------------------------- vocabulary of the claims
\* A command that passed validate_config is running or has ended.
Started == pc \notin {"idle", "exited"}

RemoteIds == DOMAIN remote_playlists

\* The distinct relationship rows of playlist p.
RelsOf(tbl, p) == {r \in BagToSet(tbl) : r.playlist_id = p}

LocalSnapshot(tbl, p) == Get(get_playlist(tbl, p), "snapshot_id")

RemoteTotal(p) == Len(remote_playlists[p].items)

\* The (playlist, track, position) rows of the remote membership of p: one per
\* item that has a track, at the zero-based index of the item.
ExpectedRows(p) ==
    {Rel(p, remote_playlists[p].items[k], k - 1) :
        k \in {n \in 1..Len(remote_playlists[p].items) :
                  remote_playlists[p].items[n] /= Null}}

\* The track ids of the remote saved-tracks library.
RemoteSavedIds == {remote_saved[k] : k \in 1..Len(remote_saved)} \ {Null}

\* When the command started, p had a local record and both markers were
\* non-empty ...
BothMarkers(p) ==
    /\ Found(get_playlist(pre.playlists, p))
    /\ Truthy(LocalSnapshot(pre.playlists, p))
    /\ Truthy(remote_playlists[p].snapshot_id)

\* ... and equal, or different.
EqualMarkers(p) ==
    BothMarkers(p) /\ LocalSnapshot(pre.playlists, p) = remote_playlists[p].snapshot_id

MarkersDiffer(p) ==
    BothMarkers(p) /\ LocalSnapshot(pre.playlists, p) /= remote_playlists[p].snapshot_id

WritesTo(p) == {k \in 1..Len(writes) : writes[k].playlist_id = p}

\* The steps of the update of the current playlist, after its metadata upsert.
UpdatePcs == {"d_fetch", "d_clear", "d_save", "d_snapshot",
              "s_fetch", "s_save", "s_snapshot"}

\* ------------------------------------------------------------------ C1
\* C1: in sync_diff, a remote playlist that has a local record whose non-empty
\* snapshot marker equals the remote one is skipped: no membership fetch is
\* made for it, no store write touches its record or its relationship rows,
\* and it is counted as skipped, whatever the local row count and the remote
\* total are.
C1_EqualMarkersSkipped ==
    (cmd = "sync_diff" /\ Started) =>
        \A p \in RemoteIds :
            EqualMarkers(p) =>
                /\ fetches[p] = 0
                /\ WritesTo(p) = {}
                /\ get_playlist(playlists, p) = get_playlist(pre.playlists, p)
                /\ RelsOf(playlist_tracks, p) = RelsOf(pre.playlist_tracks, p)
                /\ outcome[p] /= "updated"
                /\ (pc = "done" =>
                        /\ outcome[p] = "skipped"
                        /\ skipped = Cardinality({q \in PlaylistIds :
                                                     outcome[q] = "skipped"}))

\* A finished pass that skipped a playlist on equal markers although its local
\* row count differs from the remote total.
C1_Witness ==
    /\ cmd = "sync_diff" /\ pc = "done"
    /\ \E p \in RemoteIds :
        /\ EqualMarkers(p)
        /\ get_playlist_track_count(playlist_tracks, p) /= RemoteTotal(p)
        /\ outcome[p] = "skipped"

\* ------------------------------------------------------------------ C2
\* The playlists C2 speaks of: markers differ, or no local snapshot marker and
\* the local row count differs from the remote total.
C2_Stale(p) ==
    \/ MarkersDiffer(p)
    \/ /\ ~Truthy(LocalSnapshot(pre.playlists, p))
       /\ get_playlist_track_count(pre.playlist_tracks, p) /= RemoteTotal(p)

WritesOf(op, p) == {k \in WritesTo(p) : writes[k].op = op}

\* C3: in sync and in sync_diff the write of the new snapshot marker is the
\* last store write of its playlist in the pass.  The metadata upsert, the
\* removal of the old rows (sync_diff, when there is a membership to fetch)
\* and every relationship insert of the playlist come before it, none after;
\* and until that write the stored marker of the playlist being updated is
\* not the new one: it is what the upsert left, the marker the record had
\* (none after clear_all or for a new record).
C3_SnapshotWrittenLast ==
    Started =>
        /\ \A k \in 1..Len(writes) :
              writes[k].op = "set_playlist_snapshot" =>
                  LET p == writes[k].playlist_id
                  IN /\ \A m \in WritesTo(p) : m <= k
                     /\ \E m \in WritesOf("insert_playlist", p) : m < k
                     /\ Cardinality(WritesOf("add_track_to_playlist", p))
                            = Cardinality(ExpectedRows(p))
                     /\ (cmd = "sync_diff" /\ RemoteTotal(p) > 0) =>
                            \E m \in WritesOf("clear_playlist_tracks", p) :
                                \A n \in WritesOf("add_track_to_playlist", p) : m < n
        /\ pc \in UpdatePcs =>
              /\ WritesOf("set_playlist_snapshot", cur.id) = {}
              /\ LocalSnapshot(playlists, cur.id) =
                    IF clear THEN None ELSE LocalSnapshot(pre.playlists, cur.id)

\* A finished differential pass whose log for a playlist reads: upsert, clear,
\* two relationship inserts, snapshot marker.
C3_Witness ==
    /\ cmd = "sync_diff" /\ pc = "done"
    /\ \E p \in RemoteIds :
        /\ Cardinality(WritesOf("add_track_to_playlist", p)) = 2
        /\ WritesOf("set_playlist_snapshot", p) /= {}
        /\ Truthy(LocalSnapshot(pre.playlists, p))
        /\ LocalSnapshot(playlists, p) /= LocalSnapshot(pre.playlists, p)

\* ------------------------------------------------------------------ C4
\* C4: when a differential sync is aborted while playlist P is being updated
\* (at the membership fetch, right after clear_playlist_tracks, or between two
\* relationship inserts), the stored snapshot marker of P is the one it had
\* before the pass (or none); and the next differential sync against the same
\* remote state does not skip P and, once finished, has left exactly the
\* remote membership as P's relationship rows.
C4_AbortedUpdateIsRetried ==
    /\ InterruptedUpdate =>
          LocalSnapshot(playlists, cur.id) = LocalSnapshot(pre.playlists, cur.id)
    /\ (cmd = "sync_diff" /\ Started /\ prev_interrupted /= NoInterrupt) =>
          LET p == prev_interrupted.playlist_id
          IN /\ outcome[p] /= "skipped"
             /\ pc = "done" =>
                   /\ outcome[p] = "updated"
                   /\ RelsOf(playlist_tracks, p) = ExpectedRows(p)

\* A finished differential pass that follows one aborted between two inserts:
\* it started from a partial membership and from the old marker, and has
\* completed the membership.
C4_Witness ==
    /\ cmd = "sync_diff" /\ pc = "done"
    /\ prev_interrupted.at = "d_save" /\ prev_interrupted.j = 2
    /\ LET p == prev_interrupted.playlist_id
       IN /\ Cardinality(RelsOf(pre.playlist_tracks, p)) = 1
          /\ Truthy(LocalSnapshot(pre.playlists, p))
          /\ Cardinality(RelsOf(playlist_tracks, p)) = 2

\* ------------------------------------------------------------------ C5
\* C5: whenever differential sync has counted a playlist as updated, the
\* relationship rows of that playlist are exactly the (track id, position)
\* pairs of the remote membership, for every prior local state and every
\* remote state, a remote playlist with zero tracks included.
C5_UpdatedRowsAreRemoteMembership ==
    (cmd = "sync_diff" /\ Started) =>
        \A p \in RemoteIds :
            outcome[p] = "updated" =>
                RelsOf(playlist_tracks, p) = ExpectedRows(p)

\* ------------------------------------------------------------------ C6
\* The count fallback applies: no local record, or an empty or absent marker
\* on either side.
C6_Fallback(p) == ~BothMarkers(p)

\* C6: in differential sync a playlist in the count fallback is skipped if
\* and only if it has a local record and as many local relationship rows as
\* the remote total; in every other case it is updated.
C6_CountFallback ==
    (cmd = "sync_diff" /\ Started) =>
        \A p \in RemoteIds :
            (C6_Fallback(p) /\ (outcome[p] /= "none" \/ pc = "done")) =>
                LET same == /\ Found(get_playlist(pre.playlists, p))
                            /\ get_playlist_track_count(pre.playlist_tracks, p)
                                   = RemoteTotal(p)
                IN outcome[p] = IF same THEN "skipped" ELSE "updated"

\* A finished pass that skipped a playlist whose remote marker is set and
\* whose local record has none, on equal counts.
C6_Witness ==
    /\ cmd = "sync_diff" /\ pc = "done"
    /\ \E p \in RemoteIds :
        /\ Found(get_playlist(pre.playlists, p))
        /\ ~Truthy(LocalSnapshot(pre.playlists, p))
        /\ Truthy(remote_playlists[p].snapshot_id)
        /\ RemoteTotal(p) = 2
        /\ outcome[p] = "skipped"

\* ------------------------------------------------------------------ C7
\* The saved-tracks step of the command is over.
SavedStepDone ==
    pc \in {"d_playlists", "d_check", "d_insert_pl", "d_fetch", "d_clear",
            "d_save", "d_snapshot", "done"}

SavedIds(tbl) == {m.track_id : m \in tbl}

\* C7: differential sync refreshes the saved tracks if and only if the remote
\* saved total differs from the local marker count.  When they are equal it
\* makes no get_saved_tracks call and leaves the markers as they were; when
\* they differ it makes one call, truncates the markers before it writes any,
\* and afterwards the markers are those of the fetched track ids, one each.
C7_SavedRefreshedIffCountsDiffer ==
    (cmd = "sync_diff" /\ Started) =>
        IF Len(remote_saved) = Cardinality(pre.saved_tracks)
        THEN saved_fetches = 0 /\ saved_tracks = pre.saved_tracks
        ELSE /\ \A k \in 1..Len(writes) :
                    writes[k].op = "add_saved_track" =>
                        \E m \in 1..(k - 1) : writes[m].op = "clear_saved_tracks"
             /\ SavedStepDone =>
                    /\ saved_fetches = 1
                    /\ SavedIds(saved_tracks) = RemoteSavedIds
                    /\ Cardinality(saved_tracks) = Cardinality(RemoteSavedIds)
                    /\ \A m \in saved_tracks : m.added_at = RemoteAddedAt

\* A finished pass that replaced a marker of an earlier run by a fetched one.
C7_Witness ==
    /\ cmd = "sync_diff" /\ pc = "done"
    /\ pre.saved_tracks /= {}
    /\ Len(remote_saved) = 2
    /\ saved_tracks /= {}
    /\ saved_tracks /= pre.saved_tracks

\* ------------------------------------------------------------------ C8
\* C8: after a successful full sync without the clear option the relationship
\* rows of every remote playlist are exactly the membership fetched in this
\* run; no row of an earlier sync survives.
C8_FullSyncReplacesMembership ==
    (cmd = "sync" /\ ~clear /\ pc = "done") =>
        \A p \in RemoteIds : RelsOf(playlist_tracks, p) = ExpectedRows(p)

\* ------------------------------------------------------------------ C9
\* C9: after a successful full sync, with or without the clear option, the
\* saved markers are exactly one per track returned by the remote saved-tracks
\* fetch; no marker of a track that the remote no longer returns remains.
C9_FullSyncReplacesSaved ==
    (cmd = "sync" /\ pc = "done") =>
        /\ SavedIds(saved_tracks) = RemoteSavedIds
        /\ Cardinality(saved_tracks) = Cardinality(RemoteSavedIds)

\* ------------------------------------------------------------------ C10
\* The track ids the remote returns in this run.
RemoteTrackIds ==
    (RemoteSavedIds
        \cup UNION {{remote_playlists[p].items[k] :
                        k \in 1..Len(remote_playlists[p].items)} : p \in RemoteIds})
    \ {Null}

\* C10: full sync with the clear option truncates the four tables before it
\* writes any fetched data, so that after a successful run the store holds
\* nothing that only existed before the run: every track, playlist,
\* relationship and saved marker is one the remote returned in this run.
C10_ClearLeavesOnlyFetchedData ==
    (cmd = "sync" /\ clear /\ Started) =>
        /\ writes /= <<>> => writes[1].op = "clear_all"
        /\ pc \notin {"s_clear", "failed"} => writes /= <<>>
        /\ pc = "done" =>
              /\ {t.id : t \in tracks} = RemoteTrackIds
              /\ playlists = {PlaylistDoc(p, IF Truthy(remote_playlists[p].snapshot_id)
                                             THEN remote_playlists[p].snapshot_id
                                             ELSE None) : p \in RemoteIds}
              /\ playlist_tracks = SetToBag(UNION {ExpectedRows(p) : p \in RemoteIds})
              /\ saved_tracks = {SavedDoc(t, RemoteAddedAt) : t \in RemoteSavedIds}

\* A finished full sync with clear that started from a store holding a track,
\* a playlist, a relationship and a saved marker, none of which the remote
\* returns, and that has left the store empty.
C10_Witness ==
    /\ cmd = "sync" /\ clear /\ pc = "done"
    /\ pre.tracks /= {} /\ pre.playlists /= {}
    /\ pre.playlist_tracks /= EmptyBag /\ pre.saved_tracks /= {}
    /\ tracks = {} /\ playlists = {} /\ playlist_tracks = EmptyBag
    /\ saved_tracks = {}

\* ------------------------------------------------------------------ C11
\* The order of the snapshot markers of one remote playlist: a playlist without
\* marker may get one, and a marker is followed by a later one, never by an
\* earlier one.
MarkerRank(s) == CASE s = "" -> 0 [] s = "s1" -> 1 [] s = "s2" -> 2

\* A later revision of a remote playlist: a marker the playlist never had; a
\* playlist that reports no marker changes without one.
LaterRevision(old, new) ==
    \/ MarkerRank(new.snapshot_id) > MarkerRank(old.snapshot_id)
    \/ new.snapshot_id = "" /\ old.snapshot_id = ""

\* Between two commands the remote library changes: playlists appear, and
\* playlists get a later revision with any membership; the saved tracks change
\* freely.
RemoteChange ==
    /\ pc = "idle"
    /\ \E new \in RemoteListings :
        /\ DOMAIN remote_playlists \subseteq DOMAIN new
        /\ \A p \in DOMAIN remote_playlists :
              new[p] = remote_playlists[p] \/ LaterRevision(remote_playlists[p], new[p])
        /\ remote_playlists' = new
    /\ remote_saved' \in SavedItemSeqs
    /\ remoteVars' /= remoteVars
    /\ prev_completed' = FALSE
    /\ UNCHANGED <<storeVars, pc, cmd, clear, localVars, exit_code, histVars,
                   prev_interrupted, configured, db, calls, apiVars, clientVars,
                   fileVars>>

\* The store before the first sync: db.json does not exist yet.
InitEmpty ==
    /\ tracks = {} /\ playlists = {} /\ playlist_tracks = EmptyBag
    /\ saved_tracks = {}
    /\ remote_saved \in SavedItemSeqs
    /\ remote_playlists \in RemoteListings
    /\ prev_interrupted = NoInterrupt
    /\ configured \in BOOLEAN
    /\ last_call = NoCall /\ result = NoResult
    /\ Idle

NextEvolve == Next \/ RemoteChange

\* Every sequence of full syncs (with and without clear) and differential
\* syncs, aborted ones included, from the empty store, against a remote
\* library that changes between the commands.
SpecEvolve == InitEmpty /\ [][NextEvolve]_vars

\* C11: in every state reachable by syncs and differential syncs from the
\* empty store, runs aborted by a remote error included, a local playlist
\* record whose non-empty snapshot marker equals the marker of the remote
\* revision of that playlist has exactly that revision's membership as its
\* relationship rows.
C11_EqualMarkerMeansEqualMembership ==
    \A p \in RemoteIds :
        LET local_pl == get_playlist(playlists, p)
        IN (/\ Found(local_pl)
            /\ Truthy(Get(local_pl, "snapshot_id"))
            /\ Get(local_pl, "snapshot_id") = remote_playlists[p].snapshot_id)
           => /\ RelsOf(playlist_tracks, p) = ExpectedRows(p)
              /\ get_playlist_track_count(playlist_tracks, p)
                     = Cardinality(ExpectedRows(p))

\* ------------------------------------------------------------------ C12
\* The steps of the two commands that are a call of the remote client.
RemoteCallPcs == {"d_user", "d_total", "d_fetch_saved", "d_playlists", "d_fetch",
                  "s_user", "s_saved", "s_playlists", "s_fetch"}

\* C12: when a remote call of sync or sync_diff raises, the command aborts:
\* the failing step writes nothing and leaves every earlier write in place
\* (no rollback), the store is closed, the exit status is 1, and the only
\* step that follows is the end of the process, which makes no remote call
\* and no store write.
C12_RemoteErrorAborts ==
    [][/\ (pc \in RemoteCallPcs /\ pc' = "failed") =>
              /\ UNCHANGED storeVars
              /\ writes' = writes
              /\ calls' = calls
              /\ db' = "closed"
              /\ exit_code' = 1
       /\ pc = "failed" =>
              /\ pc' = "idle"
              /\ UNCHANGED storeVars
              /\ calls' <= calls]_vars

\* A differential sync aborted by the membership fetch of a playlist, after
\* it has rewritten the saved markers.
C12_Witness ==
    /\ cmd = "sync_diff" /\ pc = "failed" /\ abort_at = "d_fetch"
    /\ saved_tracks /= pre.saved_tracks
    /\ \E k \in 1..Len(writes) : writes[k].op = "insert_playlist"
    /\ exit_code = 1 /\ db = "closed"

\* ------------------------------------------------------------------ C13
\* C13: when the credentials are not configured, sync and sync_diff exit with
\* status 1 before the remote client is built and before the store is opened:
\* no remote call, no store write (the clear of the clear option included),
\* and nothing follows but the end of the process.
C13_NoCredentialsNoWork ==
    [][/\ (pc = "idle" /\ pc' /= "idle" /\ ~configured') =>
              /\ pc' = "exited"
              /\ exit_code' = 1
              /\ db' = "none"
              /\ calls' = 0
              /\ writes' = <<>>
              /\ UNCHANGED storeVars
       /\ pc = "exited" =>
              /\ pc' = "idle"
              /\ UNCHANGED storeVars
              /\ calls' = 0]_vars

\* A full sync with the clear option that has exited for lack of credentials
\* and has left a non-empty store as it was.
C13_Witness ==
    /\ cmd = "sync" /\ clear /\ pc = "exited" /\ ~configured
    /\ exit_code = 1 /\ db = "none" /\ calls = 0
    /\ tracks /= {} /\ playlists /= {} /\ saved_tracks /= {}

\* -------------------------- the store's interface, called outside a command
\* An id that no track has ("missing" in tests/test_database.py).
NoTrack == CHOOSE n \in 0..NumTracks : n \notin TrackIds

\* Track documents as extract_track_data builds them: always the same keys,
\* of which the model keeps id, name and artist.
TrackNames == {"Old Name", "New Name"}
TrackArtists == {"Artist A", "Artist B"}
TrackVersions ==
    {[id |-> t, name |-> n, artist |-> a] :
        t \in TrackIds, n \in TrackNames, a \in TrackArtists}

\* Playlist documents: as the commands upsert them (without snapshot_id) or
\* with a marker.
PlaylistVersions == {PlaylistDoc(p, snap) : p \in PlaylistIds, snap \in Markers \cup {None}}

\* The four tables.
Store == [tracks |-> tracks, playlists |-> playlists,
          playlist_tracks |-> playlist_tracks, saved_tracks |-> saved_tracks]

\* The call, its arguments and the tables it found.
ApiCall(op, arg) ==
    /\ last_call' = [op |-> op, arg |-> arg, before |-> Store]
    /\ UNCHANGED <<clientVars, fileVars>>

\* No command runs while the interface is called directly.
NoCommand ==
    /\ pc = "idle"
    /\ UNCHANGED <<remoteVars, pc, cmd, clear, localVars, exit_code, histVars,
                   prev_interrupted, prev_completed, configured, db, calls>>

ApiInsertTrack ==
    /\ NoCommand
    /\ \E track_data \in TrackVersions :
        /\ tracks' = insert_track(tracks, track_data)
        /\ ApiCall("insert_track", track_data)
    /\ result' = NoResult
    /\ UNCHANGED <<playlists, playlist_tracks, saved_tracks>>

ApiGetTrack ==
    /\ NoCommand
    /\ \E track_id \in TrackIds \cup {NoTrack} :
        /\ result' = [value |-> get_track(tracks, track_id)]
        /\ ApiCall("get_track", track_id)
    /\ UNCHANGED storeVars

ApiInsertPlaylist ==
    /\ NoCommand
    /\ \E playlist_data \in PlaylistVersions :
        /\ playlists' = insert_playlist(playlists, playlist_data)
        /\ ApiCall("insert_playlist", playlist_data)
    /\ result' = NoResult
    /\ UNCHANGED <<tracks, playlist_tracks, saved_tracks>>

ApiGetPlaylist ==
    /\ NoCommand
    /\ \E playlist_id \in PlaylistIds \cup {NoPlaylist} :
        /\ result' = [value |-> get_playlist(playlists, playlist_id)]
        /\ ApiCall("get_playlist", playlist_id)
    /\ UNCHANGED storeVars

ApiSetPlaylistSnapshot ==
    /\ NoCommand
    /\ \E playlist_id \in PlaylistIds, snapshot_id \in Markers :
        /\ playlists' = set_playlist_snapshot(playlists, playlist_id, snapshot_id)
        /\ ApiCall("set_playlist_snapshot",
                   [playlist_id |-> playlist_id, snapshot_id |-> snapshot_id])
    /\ result' = NoResult
    /\ UNCHANGED <<tracks, playlist_tracks, saved_tracks>>

ApiAddTrackToPlaylist ==
    /\ NoCommand
    /\ \E playlist_id \in PlaylistIds, track_id \in TrackIds, position \in Positions :
        /\ playlist_tracks' =
              add_track_to_playlist(playlist_tracks, playlist_id, track_id, position)
        /\ ApiCall("add_track_to_playlist", Rel(playlist_id, track_id, position))
    /\ result' = NoResult
    /\ UNCHANGED <<tracks, playlists, saved_tracks>>

ApiClearPlaylistTracks ==
    /\ NoCommand
    /\ \E playlist_id \in PlaylistIds :
        /\ playlist_tracks' = clear_playlist_tracks(playlist_tracks, playlist_id)
        /\ ApiCall("clear_playlist_tracks", playlist_id)
    /\ result' = NoResult
    /\ UNCHANGED <<tracks, playlists, saved_tracks>>

ApiAddSavedTrack ==
    /\ NoCommand
    /\ \E track_id \in TrackIds, added_at \in {OldAddedAt, RemoteAddedAt} :
        /\ saved_tracks' = add_saved_track(saved_tracks, track_id, added_at)
        /\ ApiCall("add_saved_track", SavedDoc(track_id, added_at))
    /\ result' = NoResult
    /\ UNCHANGED <<tracks, playlists, playlist_tracks>>

ApiClearSavedTracks ==
    /\ NoCommand
    /\ saved_tracks' = truncate(saved_tracks)
    /\ ApiCall("clear_saved_tracks", <<>>)
    /\ result' = NoResult
    /\ UNCHANGED <<tracks, playlists, playlist_tracks>>

ApiClearAll ==
    /\ NoCommand
    /\ LET cleared == clear_all(Store)
       IN /\ tracks' = cleared.tracks
          /\ playlists' = cleared.playlists
          /\ playlist_tracks' = cleared.playlist_tracks
          /\ saved_tracks' = cleared.saved_tracks
    /\ ApiCall("clear_all", <<>>)
    /\ result' = NoResult

\* A new store (db.json does not exist) and no remote library.
InitStore ==
    /\ tracks = {} /\ playlists = {} /\ playlist_tracks = EmptyBag
    /\ saved_tracks = {}
    /\ remote_saved = <<>>
    /\ remote_playlists \in [{} -> RemotePlaylistStates]
    /\ prev_interrupted = NoInterrupt
    /\ configured = TRUE
    /\ last_call = NoCall /\ result = NoResult
    /\ Idle

NextStore ==
    \/ ApiInsertTrack \/ ApiGetTrack \/ ApiInsertPlaylist \/ ApiGetPlaylist
    \/ ApiSetPlaylistSnapshot \/ ApiAddTrackToPlaylist \/ ApiClearPlaylistTracks
    \/ ApiAddSavedTrack \/ ApiClearSavedTracks \/ ApiClearAll

\* Every sequence of calls of the store's interface on a new store.
SpecStore == InitStore /\ [][NextStore]_vars

\* ------------------------------------------------------------------ C14
\* C14: get_track and get_playlist called with an id that no row of the table
\* has return None (the empty document): they do not raise, and the four
\* tables are as the call found them.
C14_LookupMissReturnsNone ==
    /\ (/\ last_call.op = "get_track"
        /\ \A d \in last_call.before.tracks : d.id /= last_call.arg)
       => /\ result.value = <<>>
          /\ Store = last_call.before
    /\ (/\ last_call.op = "get_playlist"
        /\ \A d \in last_call.before.playlists : d.id /= last_call.arg)
       => /\ result.value = <<>>
          /\ Store = last_call.before

\* get_track has been called with an id that no row has, on a table that
\* holds a row.
C14_Witness ==
    /\ last_call.op = "get_track" /\ last_call.arg = NoTrack
    /\ tracks /= {}
    /\ ~Found(result.value)

C16_IdsAreUnique ==
    /\ \A a, b \in tracks : a.id = b.id => a = b
    /\ \A a, b \in playlists : a.id = b.id => a = b
    /\ (/\ last_call.op = "insert_track"
        /\ \E d \in last_call.before.tracks : d.id = last_call.arg.id)
       => Cardinality(tracks) = Cardinality(last_call.before.tracks)
    /\ (/\ last_call.op = "insert_playlist"
        /\ \E d \in last_call.before.playlists : d.id = last_call.arg.id)
       => Cardinality(playlists) = Cardinality(last_call.before.playlists)

\* A playlist has been inserted over a row of the same id with another
\* content, and the table still has one row.
C16_Witness ==
    /\ last_call.op = "insert_playlist"
    /\ \E d \in last_call.before.playlists :
        d.id = last_call.arg.id /\ d /= last_call.arg
    /\ Cardinality(playlists) = 1

\* ------------------------------------------------------------------ C17
\* C17: the relationship table holds at most one row per (playlist id, track
\* id, position).  add_track_to_playlist of a triple that has a row leaves
\* the table as it was; of a triple that has none, it adds exactly one row
\* and keeps every other, so that a track at a second position of the same
\* playlist gets a second row.
C17_OneRowPerTriple ==
    /\ \A r \in BagToSet(playlist_tracks) : CopiesIn(r, playlist_tracks) = 1
    /\ last_call.op = "add_track_to_playlist" =>
          LET old == last_call.before.playlist_tracks
          IN IF BagIn(last_call.arg, old)
             THEN playlist_tracks = old
             ELSE /\ BagCardinality(playlist_tracks) = BagCardinality(old) + 1
                  /\ BagIn(last_call.arg, playlist_tracks)
                  /\ \A r \in BagToSet(old) : BagIn(r, playlist_tracks)

\* The table holds one track at two positions of one playlist, and a second
\* call for one of the two triples has left it so.
C17_Witness ==
    /\ last_call.op = "add_track_to_playlist"
    /\ BagIn(last_call.arg, last_call.before.playlist_tracks)
    /\ \E r \in BagToSet(playlist_tracks) :
        /\ r.playlist_id = last_call.arg.playlist_id
        /\ r.track_id = last_call.arg.track_id
        /\ r.position /= last_call.arg.position
    /\ BagCardinality(playlist_tracks) = 2

\* ------------------------------------------------------------------ C18
\* C18: the saved markers hold at most one marker per track id, and
\* add_saved_track of a track id that has a marker leaves the markers as they
\* were, the stored added_at included.
C18_OneMarkerPerTrack ==
    /\ \A a, b \in saved_tracks : a.track_id = b.track_id => a = b
    /\ (/\ last_call.op = "add_saved_track"
        /\ \E m \in last_call.before.saved_tracks :
               m.track_id = last_call.arg.track_id)
       => saved_tracks = last_call.before.saved_tracks

\* add_saved_track has been called with another added_at for a track that has
\* a marker, and the marker has kept its added_at.
C18_Witness ==
    /\ last_call.op = "add_saved_track"
    /\ \E m \in saved_tracks :
        /\ m.track_id = last_call.arg.track_id
        /\ m.added_at /= last_call.arg.added_at

\* ------------------------------------------------- the queries of the store
QTrackIds == 1..NumQueryTracks
QPlaylistIds == 1..NumQueryPlaylists

\* Playlist names, and the name of the liked-songs entry (which in the source
\* begins with the heart U+2764).
PlaylistNames == {"a", "B"}
LikedSongsName == "Liked Songs"

\* str.lower() on the names of the model.
Lower(name) ==
    CASE name = "B" -> "b"
      [] name = LikedSongsName -> "liked songs"
      [] OTHER -> name

\* The strings of the model in the order of Python's string comparison (by
\* code point: upper case before lower case, the heart after every letter).
CodePointOrder == <<"", "B", LikedSongsName, "a", "b", "liked songs">>

StrRank(str) == CHOOSE k \in 1..Len(CodePointOrder) : CodePointOrder[k] = str

\* Mutant of NameKey: the key is the name itself, not its lower case.
NameKey_CaseSensitive(p) == StrRank(IF "name" \in DOMAIN p THEN p.name ELSE "")

\* The sort key of get_playlists_for_track: p.get("name", "").lower().
NameKey(p) == StrRank(Lower(IF "name" \in DOMAIN p THEN p.name ELSE ""))

\* The id of the liked-songs entry, '__saved_tracks__': the id of no playlist.
LikedSongsId == CHOOSE n \in 0..NumQueryPlaylists : n \notin QPlaylistIds

\* The entry get_playlists_for_track appends for a saved track.
LikedSongs == [name |-> LikedSongsName, id |-> LikedSongsId, owner |-> "You",
               public |-> FALSE, positions |-> <<>>]

\* list.sort(key=position) on relationship rows: the rows of the bag in
\* ascending position.  The sort is stable, so rows of equal position stay in
\* the order of the table, which is any order here.
RECURSIVE SortedByPosition(_)
SortedByPosition(rows) ==
    IF BagToSet(rows) = {} THEN {<<>>}
    ELSE LET least == {r \in BagToSet(rows) :
                          \A x \in BagToSet(rows) : r.position <= x.position}
         IN UNION {{<<m>> \o rest : rest \in SortedByPosition(rows (-) SetToBag({m}))}
                      : m \in least}

\* The loop of get_playlist_tracks: the track of each row, unless it has none.
RECURSIVE TracksOfRows(_, _)
TracksOfRows(tbl, rels) ==
    IF rels = <<>> THEN <<>>
    ELSE LET track == get_track(tbl, Head(rels).track_id)
         IN (IF Found(track) THEN <<track>> ELSE <<>>) \o TracksOfRows(tbl, Tail(rels))

\* Mutant of get_playlist_tracks: the rows are not sorted, they come in the
\* order of the table.
get_playlist_tracks_unsorted(store, playlist_id) ==
    LET rows == BagToSet(search_rows(store.playlist_tracks,
                                     "playlist_id", playlist_id))
    IN {TracksOfRows(store.tracks, rels) :
            rels \in {f \in [1..Cardinality(rows) -> rows] :
                         \A a, b \in 1..Cardinality(rows) : a /= b => f[a] /= f[b]}}

\* SpotifyDatabase.get_playlist_tracks: the lists it can return.
get_playlist_tracks(store, playlist_id) ==
    LET relationships == search_rows(store.playlist_tracks,
                                     "playlist_id", playlist_id)
    IN {TracksOfRows(store.tracks, rels) : rels \in SortedByPosition(relationships)}

\* sorted(positions) on a bag of integers.
RECURSIVE sorted(_)
sorted(positions) ==
    IF BagToSet(positions) = {} THEN <<>>
    ELSE LET m == CHOOSE x \in BagToSet(positions) :
                      \A y \in BagToSet(positions) : x <= y
         IN <<m>> \o sorted(positions (-) SetToBag({m}))

\* enriched.sort(key=name.lower()): the entries in ascending key; entries of
\* equal key in any order (see SortedByPosition).
RECURSIVE SortedByName(_)
SortedByName(entries) ==
    IF entries = {} THEN {<<>>}
    ELSE LET least == {e \in entries : \A x \in entries : NameKey(e) <= NameKey(x)}
         IN UNION {{<<m>> \o rest : rest \in SortedByName(entries \ {m})}
                      : m \in least}

\* positions_per_playlist[pid] of get_playlists_for_track: the positions of
\* the rows of track_id in playlist pid, one per row.
positions_per_playlist(rels, pid, track_id) ==
    [pos \in {r.position : r \in {x \in BagToSet(rels) : x.playlist_id = pid}}
        |-> rels[Rel(pid, track_id, pos)]]

\* Mutant of get_playlists_for_track: one entry per relationship row.
get_playlists_for_track_ungrouped(store, track_id) ==
    LET rels == search_rows(store.playlist_tracks, "track_id", track_id)
        enriched ==
            {Merge(get_playlist(store.playlists, r.playlist_id),
                   [positions |-> <<r.position>>]) :
                r \in {x \in BagToSet(rels) :
                          Found(get_playlist(store.playlists, x.playlist_id))}}
        saved == {m \in store.saved_tracks : m.track_id = track_id}
    IN SortedByName(enriched \cup (IF saved /= {} THEN {LikedSongs} ELSE {}))

\* SpotifyDatabase.get_playlists_for_track: the lists it can return.
get_playlists_for_track(store, track_id) ==
    LET rels == search_rows(store.playlist_tracks, "track_id", track_id)
        pids == {r.playlist_id : r \in BagToSet(rels)}
        enriched ==
            {Merge(get_playlist(store.playlists, pid),
                   [positions |-> sorted(positions_per_playlist(rels, pid, track_id))]) :
                pid \in {q \in pids : Found(get_playlist(store.playlists, q))}}
        saved == {m \in store.saved_tracks : m.track_id = track_id}
    IN SortedByName(enriched \cup (IF saved /= {} THEN {LikedSongs} ELSE {}))

ApiGetPlaylistTracks ==
    /\ NoCommand
    /\ \E playlist_id \in QPlaylistIds :
        /\ \E tracks_list \in get_playlist_tracks(Store, playlist_id) :
              result' = [value |-> tracks_list]
        /\ ApiCall("get_playlist_tracks", playlist_id)
    /\ UNCHANGED storeVars

ApiGetPlaylistsForTrack ==
    /\ NoCommand
    /\ \E track_id \in QTrackIds :
        /\ \E enriched \in get_playlists_for_track(Store, track_id) :
              result' = [value |-> enriched]
        /\ ApiCall("get_playlists_for_track", track_id)
    /\ UNCHANGED storeVars

\* A playlist document with its name.
NamedPlaylist(p, name) == [id |-> p, name |-> name]

\* Every store within the bounds, rows without track row or playlist row and
\* markers without track row included; no row twice.
InitQuery ==
    /\ \E S \in SUBSET QTrackIds : tracks = {TrackDoc(t) : t \in S}
    /\ \E D \in SUBSET QPlaylistIds : \E f \in [D -> PlaylistNames] :
          playlists = {NamedPlaylist(p, f[p]) : p \in D}
    /\ \E R \in SUBSET {Rel(p, t, pos) :
                           p \in QPlaylistIds, t \in QTrackIds, pos \in Positions} :
          playlist_tracks = SetToBag(R)
    /\ \E V \in SUBSET QTrackIds : saved_tracks = {SavedDoc(t, OldAddedAt) : t \in V}
    /\ remote_saved = <<>>
    /\ remote_playlists \in [{} -> RemotePlaylistStates]
    /\ prev_interrupted = NoInterrupt
    /\ configured = TRUE
    /\ last_call = NoCall /\ result = NoResult
    /\ Idle

NextQuery == ApiGetPlaylistTracks \/ ApiGetPlaylistsForTrack

\* The queries of the store on every store within the bounds.
SpecQuery == InitQuery /\ [][NextQuery]_vars

\* ------------------------------------------------------------------ C19
\* The rows of playlist p whose track has a track row.
ListedRows(p) ==
    {r \in RelsOf(playlist_tracks, p) : \E d \in tracks : d.id = r.track_id}

\* C19: get_playlist_tracks(P) returns one entry per relationship row of P
\* whose track id has a track row, in ascending order of position: the
\* entries that follow those of the lower positions are the track documents
\* of the rows of the next position (a track at several positions appears
\* once for each).  Rows whose track has no row give no entry and no error.
C19_PlaylistTracksByPosition ==
    last_call.op = "get_playlist_tracks" =>
        LET p == last_call.arg
            res == result.value
            Before(pos) == Cardinality({r \in ListedRows(p) : r.position < pos})
            At(pos) == {r \in ListedRows(p) : r.position = pos}
        IN /\ Len(res) = Cardinality(ListedRows(p))
           /\ \A pos \in Positions :
                 {res[k] : k \in (Before(pos) + 1)..(Before(pos) + Cardinality(At(pos)))}
                     = {get_track(tracks, r.track_id) : r \in At(pos)}
           /\ Store = last_call.before

\* A result that lists two tracks by position against the order of their
\* ids: the playlist holds the second track at position 0 and the first at 1.
C19_Witness ==
    /\ last_call.op = "get_playlist_tracks"
    /\ \E p \in QPlaylistIds, a, b \in QTrackIds :
        /\ p = last_call.arg /\ a < b
        /\ BagIn(Rel(p, b, 0), playlist_tracks)
        /\ BagIn(Rel(p, a, 1), playlist_tracks)
        /\ ~BagIn(Rel(p, a, 0), playlist_tracks)
        /\ ~BagIn(Rel(p, b, 1), playlist_tracks)
        /\ result.value = <<TrackDoc(b), TrackDoc(a)>>

\* ------------------------------------------------------------------ C20
\* The playlists that have a playlist row and at least one row for track t.
Holders(t) ==
    {q \in QPlaylistIds :
        /\ Found(get_playlist(playlists, q))
        /\ \E r \in RelsOf(playlist_tracks, q) : r.track_id = t}

\* C20: get_playlists_for_track(T) returns exactly one entry per playlist
\* that has a playlist row and at least one relationship row for T, each the
\* playlist document with all positions of T in that playlist in ascending
\* order; it holds the liked-songs entry if and only if T has a saved marker;
\* playlists with rows for T but without playlist row give no entry and no
\* error.
C20_PlaylistsForTrack ==
    last_call.op = "get_playlists_for_track" =>
        LET t == last_call.arg
            res == result.value
            EntriesOf(id) == {k \in 1..Len(res) : res[k].id = id}
            liked == \E m \in saved_tracks : m.track_id = t
        IN /\ \A q \in Holders(t) :
                 /\ Cardinality(EntriesOf(q)) = 1
                 /\ \A k \in EntriesOf(q) :
                       LET ps == res[k].positions
                       IN /\ res[k].name = get_playlist(playlists, q).name
                          /\ {ps[n] : n \in 1..Len(ps)} =
                                {r.position : r \in {x \in RelsOf(playlist_tracks, q) :
                                                        x.track_id = t}}
                          /\ \A m, n \in 1..Len(ps) : m < n => ps[m] < ps[n]
           /\ Cardinality(EntriesOf(LikedSongsId)) = IF liked THEN 1 ELSE 0
           /\ \A k \in EntriesOf(LikedSongsId) : res[k] = LikedSongs
           /\ Len(res) = Cardinality(Holders(t)) + (IF liked THEN 1 ELSE 0)
           /\ Store = last_call.before

\* A result of two entries for a saved track: a playlist with the positions
\* 0 and 1 of the track, and the liked-songs entry; the other playlist has a
\* row for the track but no playlist row.
C20_Witness ==
    /\ last_call.op = "get_playlists_for_track"
    /\ Len(result.value) = 2
    /\ \E k \in 1..2 : result.value[k].positions = <<0, 1>>
    /\ \E k \in 1..2 : result.value[k] = LikedSongs
    /\ \E q \in QPlaylistIds :
        /\ ~Found(get_playlist(playlists, q))
        /\ \E r \in RelsOf(playlist_tracks, q) : r.track_id = last_call.arg

\* ------------------------------------------------------------------ C21
\* C21: the list get_playlists_for_track returns is in ascending order of the
\* lower-cased playlist name, the liked-songs entry in its place in that
\* order, whatever the table holds (and so whatever the order of the inserts
\* that filled it).
C21_SortedByLowerCaseName ==
    last_call.op = "get_playlists_for_track" =>
        LET res == result.value
        IN \A k \in 1..(Len(res) - 1) :
              StrRank(Lower(res[k].name)) <= StrRank(Lower(res[k + 1].name))

\* A result of three entries in which "a" comes before "B", against the
\* order of the code points, and the liked-songs entry comes last.
C21_Witness ==
    /\ last_call.op = "get_playlists_for_track"
    /\ Len(result.value) = 3
    /\ result.value[1].name = "a"
    /\ result.value[2].name = "B"
    /\ result.value[3] = LikedSongs

\* ------------------------- the paginated client calls (spotify_client.py)
\* The page size of a call (limit = 50 or 100), and the number of pages the
\* remote holds at most.
PageLimit == 2
MaxPages == 2

\* hashlib.md5(...).hexdigest(): the digest of a string, one per string.
md5(str) == "md5(" \o str \o ")"

\* Mutant of extract_track_data: the album name enters the derived id.
extract_track_data_album_in_id(track) ==
    IF ~Found(track) THEN <<>>
    ELSE [id |-> IF Truthy(Get(track, "id")) THEN track.id
                 ELSE md5(track.uri \o ":" \o track.name \o ":" \o track.album.name),
          name |-> IF Truthy(Get(track, "name")) THEN track.name ELSE "",
          album |-> IF Truthy(Get(track.album, "name")) THEN track.album.name ELSE "",
          uri |-> IF Truthy(Get(track, "uri")) THEN track.uri ELSE ""]

\* SpotifyClient.extract_track_data: None for a null track; the id of the
\* remote track, or the digest of "uri:name" when it has none (None or "");
\* of the copied fields the model keeps name, album and uri.
extract_track_data(track) ==
    IF ~Found(track) THEN <<>>
    ELSE LET uri == IF "uri" \in DOMAIN track THEN track.uri ELSE ""
             name == IF "name" \in DOMAIN track THEN track.name ELSE ""
         IN [id |-> IF Truthy(Get(track, "id")) THEN track.id
                    ELSE md5(uri \o ":" \o name),
             name |-> IF Truthy(Get(track, "name")) THEN track.name ELSE "",
             album |-> IF Truthy(Get(track.album, "name")) THEN track.album.name ELSE "",
             uri |-> IF Truthy(Get(track, "uri")) THEN track.uri ELSE ""]

\* Remote track objects: with an id, with a null id and with an empty id.
RemoteTracks ==
    [id : {None, "", "t1"}, uri : {"spotify:local:a", "spotify:local:b"},
     name : {"Song A", "Song B"}, album : [name : {"Album A", "Album B"}]]

\* The items the remote serves to a call: playlist items and saved items hold
\* a track or a null track, the listing holds playlist objects, with and
\* without snapshot_id.
RemoteItems(op) ==
    LET t1 == [id |-> "t1", uri |-> "spotify:track:t1", name |-> "Song A",
               album |-> [name |-> "Album A"]]
        local == [id |-> None, uri |-> "spotify:local:a", name |-> "Song B",
                  album |-> [name |-> "Album B"]]
    IN IF op = "get_user_playlists"
       THEN {[id |-> 1, tracks |-> [total |-> 1], snapshot_id |-> "s1"],
             [id |-> 2, tracks |-> [total |-> 0]]}
       ELSE {[track |-> t, added_at |-> RemoteAddedAt] : t \in {t1, local, <<>>}}

\* The loop over the items of one page: what the call appends to its list.
\* get_playlist_tracks pairs the track with the position counter, which counts
\* every item; get_saved_tracks adds added_at; both drop an item without
\* track.  get_user_playlists keeps every item.
page_items(op, items, pos) ==
    LET F[k \in 0..Len(items)] ==
            IF k = 0 THEN <<>>
            ELSE LET item == items[k]
                 IN IF op = "get_user_playlists"
                    THEN Append(F[k - 1],
                                [id |-> item.id,
                                 tracks_total |-> item.tracks.total,
                                 snapshot_id |-> IF "snapshot_id" \in DOMAIN item
                                                 THEN item.snapshot_id ELSE ""])
                    ELSE LET track_data == extract_track_data(item.track)
                         IN IF ~Found(track_data) THEN F[k - 1]
                            ELSE IF op = "get_playlist_tracks"
                                 THEN Append(F[k - 1], <<track_data, pos + k - 1>>)
                                 ELSE Append(F[k - 1],
                                             Merge(track_data,
                                                   [added_at |-> item.added_at]))
    IN F[Len(items)]

\* No command runs and no store call is made while the client is called.
ClientFrame ==
    /\ pc = "idle"
    /\ UNCHANGED <<storeVars, remoteVars, pc, cmd, clear, localVars, exit_code,
                   histVars, prev_interrupted, prev_completed, configured, db, calls, apiVars,
                   fileVars>>

\* A call of one of the three paginated methods starts, with or without a
\* progress callback, against some remote collection.
StartCall ==
    /\ ClientFrame
    /\ client_pc = "none"
    /\ last_call = NoCall
    /\ client_op' \in {"get_saved_tracks", "get_user_playlists", "get_playlist_tracks"}
    /\ remote_pages' \in
          UNION {[1..n -> [items : UNION {[1..m -> RemoteItems(client_op')]
                                             : m \in 0..PageLimit},
                           next : BOOLEAN]]
                    : n \in 0..MaxPages}
    /\ reported_total' \in 0..(PageLimit * MaxPages + 1)
    /\ progress_callback' \in BOOLEAN
    /\ offset' = 0 /\ next_position' = 0 /\ page' = 0 /\ pages_total' = NoPages
    /\ results' = NoPage /\ collected' = <<>>
    /\ progress' = <<>> /\ requested' = <<>>
    /\ client_pc' = "request"

\* The head of the loop: the request of the page at offset, page += 1, the
\* number of pages from the total of the first page, and the break on a page
\* without items.
FetchPage ==
    /\ ClientFrame
    /\ client_pc = "request"
    /\ LET k == (offset \div PageLimit) + 1
           res == IF k <= Len(remote_pages) THEN remote_pages[k] ELSE NoPage
           pages == (reported_total + PageLimit - 1) \div PageLimit
       IN /\ results' = res
          /\ pages_total' = IF pages_total = NoPages
                            THEN (IF pages > 1 THEN pages ELSE 1)
                            ELSE pages_total
          /\ client_pc' = IF res.items = <<>> THEN "return" ELSE "items"
    /\ requested' = Append(requested, offset)
    /\ page' = page + 1
    /\ UNCHANGED <<client_op, remote_pages, reported_total, progress_callback,
                   offset, next_position, collected, progress>>

\* Mutant of HandlePage: the position counter counts the stored tracks only.
HandlePage_CountStored ==
    /\ ClientFrame
    /\ client_pc = "items"
    /\ LET new == page_items(client_op, results.items, next_position)
           renum == [k \in 1..Len(new) |->
                        IF client_op = "get_playlist_tracks"
                        THEN <<new[k][1], next_position + k - 1>> ELSE new[k]]
       IN /\ collected' = collected \o renum
          /\ next_position' = IF client_op = "get_playlist_tracks"
                         THEN next_position + Len(new) ELSE next_position
    /\ progress' = IF progress_callback
                   THEN Append(progress, <<page, pages_total>>) ELSE progress
    /\ IF results.next
       THEN offset' = offset + PageLimit /\ client_pc' = "request"
       ELSE offset' = offset /\ client_pc' = "return"
    /\ UNCHANGED <<client_op, remote_pages, reported_total, progress_callback,
                   page, pages_total, results, requested>>

\* Mutant of HandlePage: the loop goes on after a page without next link.
HandlePage_IgnoresNext ==
    /\ ClientFrame
    /\ client_pc = "items"
    /\ collected' = collected \o page_items(client_op, results.items, next_position)
    /\ next_position' = IF client_op = "get_playlist_tracks"
                   THEN next_position + Len(results.items) ELSE next_position
    /\ progress' = IF progress_callback
                   THEN Append(progress, <<page, pages_total>>) ELSE progress
    /\ offset' = offset + PageLimit /\ client_pc' = "request"
    /\ UNCHANGED <<client_op, remote_pages, reported_total, progress_callback,
                   page, pages_total, results, requested>>

\* The rest of the loop body: the items of the page, the progress callback,
\* the break on a page without next link, offset += limit.
HandlePage ==
    /\ ClientFrame
    /\ client_pc = "items"
    /\ collected' = collected \o page_items(client_op, results.items, next_position)
    /\ next_position' = IF client_op = "get_playlist_tracks"
                   THEN next_position + Len(results.items) ELSE next_position
    /\ progress' = IF progress_callback
                   THEN Append(progress, <<page, pages_total>>) ELSE progress
    /\ IF results.next
       THEN offset' = offset + PageLimit /\ client_pc' = "request"
       ELSE offset' = offset /\ client_pc' = "return"
    /\ UNCHANGED <<client_op, remote_pages, reported_total, progress_callback,
                   page, pages_total, results, requested>>

\* Mutant of ReturnList: no callback after the loop.
ReturnList_NoFinalCallback ==
    /\ ClientFrame
    /\ client_pc = "return"
    /\ client_pc' = "returned"
    /\ UNCHANGED <<client_op, remote_pages, reported_total, progress_callback,
                   offset, next_position, page, pages_total, results, collected,
                   progress, requested>>

\* After the loop: the last call of the callback, and the return of the list.
ReturnList ==
    /\ ClientFrame
    /\ client_pc = "return"
    /\ progress' = IF progress_callback
                   THEN Append(progress, <<pages_total, pages_total>>) ELSE progress
    /\ client_pc' = "returned"
    /\ UNCHANGED <<client_op, remote_pages, reported_total, progress_callback,
                   offset, next_position, page, pages_total, results, collected,
                   requested>>

\* A remote track, and later a second one, is extracted and stored in a new
\* store, as the track loops of the syncs do.
ExtractAndInsert ==
    /\ NoCommand
    /\ client_pc = "none" /\ last_call = NoCall
    /\ \E first, second \in RemoteTracks :
        /\ tracks' = insert_track(insert_track(tracks, extract_track_data(first)),
                                  extract_track_data(second))
        /\ result' = [value |-> <<extract_track_data(first),
                                  extract_track_data(second)>>]
        /\ ApiCall("extract_track_data", <<first, second>>)
    /\ UNCHANGED <<playlists, playlist_tracks, saved_tracks>>

NextClient == StartCall \/ FetchPage \/ HandlePage \/ ReturnList \/ ExtractAndInsert

\* The paginated calls of the client against every remote collection within
\* the bounds, and the extraction and storage of remote tracks, on a new
\* store.
SpecClient == InitStore /\ [][NextClient]_vars

\* C22: in get_playlist_tracks every returned pair (track, position) is the
\* extraction of the item at index position (from 0) of the concatenation of
\* the remote pages, the positions increase strictly, and when the call has
\* returned the pairs are exactly the items of the requested pages that have a
\* track: an item without track takes a position and leaves a gap.
C22_PositionIsRemoteIndex ==
    client_op = "get_playlist_tracks" =>
        LET C[k \in 0..Len(remote_pages)] ==
                IF k = 0 THEN <<>> ELSE C[k - 1] \o remote_pages[k].items
            all == C[Len(remote_pages)]
            seen == C[IF page <= Len(remote_pages) THEN page ELSE Len(remote_pages)]
        IN /\ \A k \in 1..Len(collected) :
                /\ collected[k][2] + 1 \in 1..Len(all)
                /\ collected[k][1] = extract_track_data(all[collected[k][2] + 1].track)
           /\ \A k \in 1..(Len(collected) - 1) : collected[k][2] < collected[k + 1][2]
           /\ client_pc = "returned" =>
                {collected[k][2] : k \in 1..Len(collected)}
                    = {n - 1 : n \in {m \in 1..Len(seen) : Found(seen[m].track)}}

C22_Witness ==
    /\ client_op = "get_playlist_tracks" /\ client_pc = "returned"
    /\ page = 2
    /\ Len(remote_pages[1].items) = 2 /\ ~Found(remote_pages[1].items[2].track)
    /\ Len(collected) = 2
    /\ collected[1][2] = 0 /\ collected[2][2] = 2

\* C23: a paginated call that was given a progress callback has called it at
\* least once when it returns, and its last call has current_page equal to
\* total_pages; so it is when the first page has no items.
C23_LastProgressIsComplete ==
    (client_pc = "returned" /\ progress_callback) =>
        /\ Len(progress) >= 1
        /\ progress[Len(progress)][1] = progress[Len(progress)][2]

C23_Witness ==
    /\ client_pc = "returned" /\ progress_callback
    /\ client_op = "get_saved_tracks"
    /\ page = 1 /\ results.items = <<>>
    /\ progress = << <<3, 3>> >>

\* C27: a remote track with an id keeps it; two remote tracks without id (null
\* or empty) that have the same uri and the same name get the same id,
\* whatever their other fields, and after both are stored the tracks table
\* holds one row with that id, the second extraction.
C27_DerivedIdFromUriAndName ==
    last_call.op = "extract_track_data" =>
        LET first == last_call.arg[1]
            second == last_call.arg[2]
        IN /\ \A n \in 1..2 :
                Truthy(last_call.arg[n].id) => result.value[n].id = last_call.arg[n].id
           /\ (/\ ~Truthy(first.id) /\ ~Truthy(second.id)
               /\ first.uri = second.uri /\ first.name = second.name)
              => /\ result.value[1].id = result.value[2].id
                 /\ {d \in tracks : d.id = result.value[2].id} = {result.value[2]}

C27_Witness ==
    /\ last_call.op = "extract_track_data"
    /\ last_call.arg[1].id = None /\ last_call.arg[2].id = ""
    /\ last_call.arg[1].uri = last_call.arg[2].uri
    /\ last_call.arg[1].name = last_call.arg[2].name
    /\ last_call.arg[1].album /= last_call.arg[2].album
    /\ result.value[1] \notin tracks /\ result.value[2] \in tracks

\* ------------------------------------- the duplicate report (cli.py)
\* The --limit option's default.
DefaultLimit == 5

\* Mutant of duplicates: a track with one relationship row is listed too.
duplicates_single_rows_too(store, limit) ==
    LET rels == store.playlist_tracks
        cnt(tid) == BagCardinality(search_rows(rels, "track_id", tid))
        dupes == {<<get_track(store.tracks, tid), cnt(tid)>> :
                     tid \in {r.track_id : r \in BagToSet(rels)}}
        orders == {s \in [1..Cardinality(dupes) -> dupes] :
                      \A m, n \in DOMAIN s : m < n =>
                          /\ s[m] /= s[n]
                          /\ s[m][2] >= s[n][2]}
    IN {SubSeq(s, 1, IF limit < Len(s) THEN limit ELSE Len(s)) : s \in orders}

\* cli.duplicates: the rows are counted per track id (a row without track id
\* is passed over); the ids with more than one row and a track row are listed
\* with their counts, sorted by descending count, then by name in code point
\* order; the first limit entries are printed.  The sort is stable: entries
\* with the same count and the same name stay in the order in which the table
\* first holds their ids, which is any order here.
duplicates(store, limit) ==
    LET rels == store.playlist_tracks
        cnt(tid) == BagCardinality(search_rows(rels, "track_id", tid))
        tids == {tid \in {r.track_id : r \in BagToSet(rels)} : tid /= Null}
        dupes == {<<get_track(store.tracks, tid), cnt(tid)>> :
                     tid \in {x \in tids :
                                 cnt(x) > 1 /\ Found(get_track(store.tracks, x))}}
        key(e) == StrRank(IF "name" \in DOMAIN e[1] THEN e[1].name ELSE "")
        orders == {s \in [1..Cardinality(dupes) -> dupes] :
                      \A m, n \in DOMAIN s : m < n =>
                          /\ s[m] /= s[n]
                          /\ \/ s[m][2] > s[n][2]
                             \/ s[m][2] = s[n][2] /\ key(s[m]) <= key(s[n])}
    IN {SubSeq(s, 1, IF limit < Len(s) THEN limit ELSE Len(s)) : s \in orders}

\* The command is run with the default limit or with --limit 1.
ApiDuplicates ==
    /\ NoCommand
    /\ \E limit \in {1, DefaultLimit} :
        /\ \E report \in duplicates(Store, limit) : result' = [value |-> report]
        /\ ApiCall("duplicates", limit)
    /\ UNCHANGED storeVars

\* Every store within the bounds whose tracks have a name or none; the
\* playlists and the saved markers play no part in the report.
InitReport ==
    /\ \E S \in SUBSET QTrackIds : \E f \in [S -> PlaylistNames \cup {None}] :
          tracks = {IF f[t] = None THEN TrackDoc(t) ELSE [id |-> t, name |-> f[t]]
                       : t \in S}
    /\ playlists = {}
    /\ \E R \in SUBSET {Rel(p, t, pos) :
                           p \in QPlaylistIds, t \in QTrackIds, pos \in Positions} :
          playlist_tracks = SetToBag(R)
    /\ saved_tracks = {}
    /\ remote_saved = <<>>
    /\ remote_playlists \in [{} -> RemotePlaylistStates]
    /\ prev_interrupted = NoInterrupt
    /\ configured = TRUE
    /\ last_call = NoCall /\ result = NoResult
    /\ Idle

\* The duplicate report on every store within the bounds.
SpecReport == InitReport /\ [][ApiDuplicates]_vars

\* The track ids that have more than one relationship row and a track row.
Duplicated ==
    {t \in QTrackIds :
        /\ Found(get_track(tracks, t))
        /\ Cardinality({r \in BagToSet(playlist_tracks) : r.track_id = t}) > 1}

\* The number of relationship rows of a track, over all playlists.
RowCount(t) == BagCardinality(search_rows(playlist_tracks, "track_id", t))

\* Entry e comes strictly before entry f: more rows, or as many and a name
\* that sorts first.
ComesFirst(e, f) ==
    \/ e[2] > f[2]
    \/ e[2] = f[2] /\ StrRank(IF "name" \in DOMAIN e[1] THEN e[1].name ELSE "")
                        < StrRank(IF "name" \in DOMAIN f[1] THEN f[1].name ELSE "")

\* C24 as stated: the report lists exactly the duplicated tracks, each with
\* its row count, by descending count and then by name.
C24_ReportListsAllDuplicates ==
    last_call.op = "duplicates" =>
        LET res == result.value
        IN /\ Len(res) = Cardinality(Duplicated)
           /\ {res[k][1].id : k \in 1..Len(res)} = Duplicated
           /\ \A k \in 1..Len(res) :
                 res[k] = <<get_track(tracks, res[k][1].id), RowCount(res[k][1].id)>>
           /\ \A k \in 1..(Len(res) - 1) : ~ComesFirst(res[k + 1], res[k])

\* C24, amended: the report lists the first limit (5 unless --limit is given)
\* of the duplicated tracks in the order by descending row count and then by
\* name: every listed track is a duplicated one, listed once with its row
\* count, the list is in that order, no unlisted duplicated track comes
\* before a listed one, and a track with a single row is never listed.
C24_ReportListsFirstDuplicates ==
    last_call.op = "duplicates" =>
        LET res == result.value
            limit == last_call.arg
            listed == {res[k][1].id : k \in 1..Len(res)}
        IN /\ Len(res) = IF limit < Cardinality(Duplicated)
                         THEN limit ELSE Cardinality(Duplicated)
           /\ listed \subseteq Duplicated
           /\ Cardinality(listed) = Len(res)
           /\ \A k \in 1..Len(res) :
                 res[k] = <<get_track(tracks, res[k][1].id), RowCount(res[k][1].id)>>
           /\ \A k \in 1..(Len(res) - 1) : ~ComesFirst(res[k + 1], res[k])
           /\ \A t \in Duplicated \ listed : \A k \in 1..Len(res) :
                 ~ComesFirst(<<get_track(tracks, t), RowCount(t)>>, res[k])
           /\ \A t \in listed : RowCount(t) > 1

\* Two duplicated tracks and --limit 1: the report lists the one with three
\* rows and leaves out the one with two.
C24_Witness ==
    /\ last_call.op = "duplicates" /\ last_call.arg = 1
    /\ Cardinality(Duplicated) = 2
    /\ Len(result.value) = 1
    /\ result.value[1][2] = 3

\* ------------------------------------------------ search (database.py)
\* A text is a sequence of characters, so that "contains" is computed.
\* Mutant of field_test: the texts are compared as they are written.
field_test_case_sensitive(doc, field, query) ==
    /\ field \in DOMAIN doc
    /\ \E k \in 0..(Len(doc[field]) - Len(query)) :
          SubSeq(doc[field], k + 1, k + Len(query)) = query

\* Track.<field>.test(lambda v: query.lower() in v.lower()): false for a
\* document without the field; otherwise whether the lower-cased query is a
\* substring of the lower-cased value.
field_test(doc, field, query) ==
    LET lower(str) == [n \in 1..Len(str) |->
                          CASE str[n] = "A" -> "a"
                            [] str[n] = "B" -> "b"
                            [] OTHER -> str[n]]
    IN /\ field \in DOMAIN doc
       /\ \E k \in 0..(Len(doc[field]) - Len(query)) :
             SubSeq(lower(doc[field]), k + 1, k + Len(query)) = lower(query)

\* SpotifyDatabase.search_tracks: name, artist or album.
search_tracks(tbl, query) ==
    {d \in tbl : \/ field_test(d, "name", query)
                 \/ field_test(d, "artist", query)
                 \/ field_test(d, "album", query)}

\* SpotifyDatabase.search_tracks_by_properties: artist, name and album.
search_tracks_by_properties(tbl, name_query, artist_query, album_query) ==
    {d \in tbl : /\ field_test(d, "artist", artist_query)
                 /\ field_test(d, "name", name_query)
                 /\ field_test(d, "album", album_query)}

\* SpotifyDatabase.search_tracks_by_query_and_properties.
search_tracks_by_query_and_properties(tbl, query, name_query, artist_query, album_query) ==
    {d \in tbl : /\ \/ field_test(d, "name", query)
                    \/ field_test(d, "artist", query)
                    \/ field_test(d, "album", query)
                 /\ field_test(d, "artist", artist_query)
                 /\ field_test(d, "name", name_query)
                 /\ field_test(d, "album", album_query)}

\* The queries of the model: the empty text, a letter, and a text that
\* differs from a stored one in case only and from another in order.
Queries == {<<>>, <<"a">>, <<"A", "B">>}

ApiSearchTracks ==
    /\ NoCommand
    /\ \E query \in Queries :
        /\ result' = [value |-> search_tracks(tracks, query)]
        /\ ApiCall("search_tracks", <<query>>)
    /\ UNCHANGED storeVars

ApiSearchTracksByProperties ==
    /\ NoCommand
    /\ \E name_query, artist_query, album_query \in Queries :
        /\ result' = [value |-> search_tracks_by_properties(
                                    tracks, name_query, artist_query, album_query)]
        /\ ApiCall("search_tracks_by_properties",
                   <<name_query, artist_query, album_query>>)
    /\ UNCHANGED storeVars

ApiSearchTracksByQueryAndProperties ==
    /\ NoCommand
    /\ \E query, name_query, artist_query, album_query \in Queries :
        /\ result' = [value |-> search_tracks_by_query_and_properties(
                                    tracks, query, name_query, artist_query,
                                    album_query)]
        /\ ApiCall("search_tracks_by_query_and_properties",
                   <<query, name_query, artist_query, album_query>>)
    /\ UNCHANGED storeVars

\* Every tracks table within the bounds: each track has a name, an artist and
\* an album, or, as a document written by other means can, no album.
InitSearch ==
    /\ \E S \in SUBSET QTrackIds :
       \E f \in [S -> [name : {<<"A", "b">>, <<"b">>},
                       artist : {<<"A">>, <<"B", "a">>},
                       album : {<<"a", "b">>, <<"B">>, <<>>}]] :
          tracks = {IF f[t].album = <<>>
                    THEN [id |-> t, name |-> f[t].name, artist |-> f[t].artist]
                    ELSE [id |-> t, name |-> f[t].name, artist |-> f[t].artist,
                          album |-> f[t].album]
                       : t \in S}
    /\ playlists = {} /\ playlist_tracks = EmptyBag /\ saved_tracks = {}
    /\ remote_saved = <<>>
    /\ remote_playlists \in [{} -> RemotePlaylistStates]
    /\ prev_interrupted = NoInterrupt
    /\ configured = TRUE
    /\ last_call = NoCall /\ result = NoResult
    /\ Idle

NextSearch ==
    ApiSearchTracks \/ ApiSearchTracksByProperties
        \/ ApiSearchTracksByQueryAndProperties

\* The three searches on every tracks table within the bounds.
SpecSearch == InitSearch /\ [][NextSearch]_vars

\* Text v contains text q when case is ignored: some stretch of v is q letter
\* by letter, a capital letter and its small letter being the same.
SameLetter(a, b) ==
    \/ a = b
    \/ {a, b} = {"A", "a"}
    \/ {a, b} = {"B", "b"}

ContainsIgnoringCase(v, q) ==
    \E start \in 0..Len(v) :
        /\ start + Len(q) <= Len(v)
        /\ \A n \in 1..Len(q) : SameLetter(v[start + n], q[n])

Has(d, field, q) == field \in DOMAIN d /\ ContainsIgnoringCase(d[field], q)

\* C25: search_tracks returns exactly the stored tracks whose name, artist or
\* album contains the query, case ignored; search_tracks_by_properties exactly
\* those whose name contains the name filter, whose artist contains the artist
\* filter and whose album contains the album filter;
\* search_tracks_by_query_and_properties exactly the tracks that both of the
\* others return for the same arguments.  No search changes the store.
C25_SearchReturnsMatches ==
    LET a == last_call.arg
        res == result.value
    IN /\ last_call.op = "search_tracks" =>
            res = {d \in tracks : \/ Has(d, "name", a[1])
                                  \/ Has(d, "artist", a[1])
                                  \/ Has(d, "album", a[1])}
       /\ last_call.op = "search_tracks_by_properties" =>
            res = {d \in tracks : /\ Has(d, "name", a[1])
                                  /\ Has(d, "artist", a[2])
                                  /\ Has(d, "album", a[3])}
       /\ last_call.op = "search_tracks_by_query_and_properties" =>
            res = search_tracks(tracks, a[1])
                    \cap search_tracks_by_properties(tracks, a[2], a[3], a[4])
       /\ last_call.op /= "none" => Store = last_call.before

\* The combined search with a query and filters that match in another case:
\* of two stored tracks it returns one, which the general search and the
\* property search both return.
C25_Witness ==
    /\ last_call.op = "search_tracks_by_query_and_properties"
    /\ last_call.arg = << <<"A", "B">>, <<"A", "B">>, <<"a">>, <<>> >>
    /\ Cardinality(tracks) = 2
    /\ Cardinality(result.value) = 1
    /\ \E d \in result.value : d.name = <<"A", "b">> /\ d.artist = <<"B", "a">>

\* ------------------- two store instances on one file (database.py, TinyDB)
\* The storage of a SpotifyDatabase is TinyDB's CachingMiddleware over
\* JSONStorage: the first access reads the whole file into the buffer, every
\* later read is served from the buffer, a write replaces the buffer, and
\* close writes the buffer to the file if it was modified.  (The middleware
\* also writes after 1000 buffered writes, more than a process of the model
\* makes.)
\* Nothing but the store calls runs, and the command's store is not in use.
FileFrame ==
    /\ pc = "idle"
    /\ UNCHANGED <<storeVars, remoteVars, pc, cmd, clear, localVars, exit_code,
                   histVars, prev_interrupted, prev_completed, configured, db, calls, apiVars,
                   clientVars>>

\* SpotifyDatabase.__init__: the file is opened, nothing is read yet.
OpenStore(k) ==
    /\ FileFrame
    /\ instances[k].state = "none"
    /\ instances' = [instances EXCEPT ![k].state = "open"]
    /\ UNCHANGED <<backing_file, close_order>>

\* Mutant of StoreInsertTrack: the write goes through to the file.
StoreInsertTrack_WriteThrough(k) ==
    /\ FileFrame
    /\ instances[k].state = "open"
    /\ \E t \in QTrackIds :
        LET table == IF instances[k].loaded THEN instances[k].cache ELSE backing_file
        IN /\ instances' = [instances EXCEPT
                               ![k].loaded = TRUE,
                               ![k].cache = insert_track(table, TrackDoc(t)),
                               ![k].modified = TRUE,
                               ![k].inserted = @ \cup {t}]
           /\ backing_file' = insert_track(table, TrackDoc(t))
    /\ UNCHANGED close_order

\* insert_track on instance k: the table is read (from the file on the first
\* access, from the buffer afterwards) and the new table is written to the
\* buffer.
StoreInsertTrack(k) ==
    /\ FileFrame
    /\ instances[k].state = "open"
    /\ \E t \in QTrackIds :
        LET table == IF instances[k].loaded THEN instances[k].cache ELSE backing_file
        IN instances' = [instances EXCEPT
                            ![k].loaded = TRUE,
                            ![k].cache = insert_track(table, TrackDoc(t)),
                            ![k].modified = TRUE,
                            ![k].inserted = @ \cup {t}]
    /\ UNCHANGED <<backing_file, close_order>>

\* SpotifyDatabase.close: the buffer, if modified, replaces the file.
CloseStore(k) ==
    /\ FileFrame
    /\ instances[k].state = "open"
    /\ backing_file' = IF instances[k].modified THEN instances[k].cache
                       ELSE backing_file
    /\ instances' = [instances EXCEPT ![k].state = "closed"]
    /\ close_order' = Append(close_order, k)

NextFile ==
    \E k \in Processes : OpenStore(k) \/ StoreInsertTrack(k) \/ CloseStore(k)

\* Two processes that each open the store on the same, new file, insert
\* tracks and close, in every interleaving.
SpecFile == InitStore /\ [][NextFile]_vars

\* C26: each instance buffers its writes and writes them out at close, and the
\* file is then the buffer of the instance that closed: before a modified
\* instance has closed the file is as it was, afterwards it holds exactly what
\* the last such instance had in its buffer, whatever the other wrote.
\* C26_Witness is the interleaving the claim says exists.
C26_FileIsBufferOfLastClosed ==
    LET writers == {n \in 1..Len(close_order) : instances[close_order[n]].modified}
    IN IF writers = {}
       THEN backing_file = {}
       ELSE LET last == CHOOSE n \in writers : \A m \in writers : m <= n
            IN backing_file = instances[close_order[last]].cache

\* A lost update: both processes have inserted a track and closed, and the
\* track the first one inserted is not in the file.
C26_Witness ==
    /\ \A k \in Processes : instances[k].state = "closed"
    /\ instances["first"].inserted = {1}
    /\ instances["second"].inserted = {2}
    /\ backing_file = {TrackDoc(2)}

C29_UpdatedMarkerIsRemoteMarker ==
    \A p \in DOMAIN remote_playlists :
        (cmd \in {"sync", "sync_diff"} /\ outcome[p] = "updated") =>
            LET stored == Get(get_playlist(playlists, p), "snapshot_id")
            IN IF Truthy(remote_playlists[p].snapshot_id)
               THEN stored = remote_playlists[p].snapshot_id
               ELSE ~Truthy(stored)

\* C30: a sync_diff that follows a completed sync_diff, the remote being the
\* same, fetches neither the saved tracks nor the membership of any playlist,
\* writes nothing to the store and counts no playlist as updated.
C30_SecondPassDoesNothing ==
    (cmd = "sync_diff" /\ prev_completed /\ pc /= "exited") =>
        /\ saved_fetches = 0
        /\ \A p \in PlaylistIds : fetches[p] = 0
        /\ writes = <<>>
        /\ updated = 0
        /\ Store = pre

\* ------------------------------------------------------------------ C33
\* C33: in every state reachable from the empty store by full syncs and
\* differential syncs against a remote library that changes between them,
\* passes aborted at any step included, every relationship row's track id and
\* every saved marker's track id has a row in the tracks table, and every
\* relationship row's playlist id has a row in the playlists table.
C33_NoDanglingReference ==
    /\ \A r \in BagToSet(playlist_tracks) :
          /\ Found(get_track(tracks, r.track_id))
          /\ Found(get_playlist(playlists, r.playlist_id))
    /\ \A s \in saved_tracks : Found(get_track(tracks, s.track_id))

\* A differential sync aborted between the inserts of two rows of a playlist,
\* after it has rewritten the saved markers.
C33_Witness ==
    /\ cmd = "sync_diff" /\ pc = "failed" /\ abort_at = "d_save"
    /\ playlist_tracks /= EmptyBag /\ saved_tracks /= {}
    /\ saved_tracks /= pre.saved_tracks
    /\ pre.playlist_tracks /= playlist_tracks

\* ------------------------------------------------------------------ C34
\* C34: when a full sync with the clear option is aborted by its first remote
\* call, the user lookup, the four tables hold what they held when the command
\* started.
C34_FailedLookupKeepsData ==
    (cmd = "sync" /\ clear /\ pc = "failed" /\ abort_at = "s_user") =>
        /\ tracks = pre.tracks
        /\ playlists = pre.playlists
        /\ playlist_tracks = pre.playlist_tracks
        /\ saved_tracks = pre.saved_tracks

\* ------------------------------------------------------------------ C35
\* Each request of the remote returns, and each step of the loop is taken:
\* the calls are synchronous and nothing else runs in the process.
SpecClientFair ==
    SpecClient /\ WF_vars(FetchPage) /\ WF_vars(HandlePage) /\ WF_vars(ReturnList)

\* The page the remote serves at the k-th request; past its last page it
\* serves a page without items.
ServedPage(k) == IF k <= Len(remote_pages) THEN remote_pages[k] ELSE NoPage

\* A page that ends the fetch: no items, or no next link.
EndsFetch(res) == res.items = <<>> \/ ~res.next

\* The items of the first n pages, in remote order.
ServedItems(n) ==
    LET C[k \in 0..n] == IF k = 0 THEN <<>> ELSE C[k - 1] \o ServedPage(k).items
    IN C[n]

\* Entry e of the returned list is what the call makes of remote item it.
EntryOf(e, it) ==
    CASE client_op = "get_user_playlists" -> e.id = it.id
      [] client_op = "get_playlist_tracks" -> e[1] = extract_track_data(it.track)
      [] OTHER -> /\ e = Merge(extract_track_data(it.track),
                               [added_at |-> it.added_at])

\* The offsets requested so far are 0, limit, 2*limit, ... in this order, and
\* every requested page but the last one had items and a next link.
RequestsInOrder ==
    /\ \A k \in 1..Len(requested) : requested[k] = (k - 1) * PageLimit
    /\ \A k \in 1..(Len(requested) - 1) : ~EndsFetch(ServedPage(k))

\* A step requests at most one page, the one after the pages requested.
OneRequestPerPage ==
    requested' /= requested =>
        requested' = Append(requested, Len(requested) * PageLimit)

\* The call has returned the entries of the items in its, one per item, in
\* the same order, after a page that ends the fetch.
Returned(its) ==
    /\ Len(requested) >= 1
    /\ EndsFetch(ServedPage(Len(requested)))
    /\ Len(collected) = Len(its)
    /\ \A k \in 1..Len(its) : EntryOf(collected[k], its[k])

\* Whether the call returns an entry for a remote item: a playlist always, a
\* saved item or playlist item when it has a track.
HasEntry(it) == client_op = "get_user_playlists" \/ Found(it.track)

\* C35 as stated: each paginated fetch requests the offsets 0, limit,
\* 2*limit, ... in order and once each, stops at the first page without
\* items or without next link, eventually returns, and returns the items of
\* all requested pages in remote order.
C35_FetchReturnsAllItems ==
    /\ [](/\ RequestsInOrder
          /\ client_pc = "returned" => Returned(ServedItems(Len(requested))))
    /\ [][OneRequestPerPage]_vars
    /\ (client_pc = "request" ~> client_pc = "returned")

\* C35 as the code has it: the same, the returned list holding the items of
\* the requested pages that have an entry (every playlist, and every saved or
\* playlist item whose track is not null), in remote order.
C35_FetchReturnsItemsWithTrack ==
    /\ [](/\ RequestsInOrder
          /\ client_pc = "returned" =>
                Returned(SelectSeq(ServedItems(Len(requested)), HasEntry)))
    /\ [][OneRequestPerPage]_vars
    /\ (client_pc = "request" ~> client_pc = "returned")

\* A fetch of the saved tracks has returned after two requests: the first
\* page had a next link and an item without track, the second page ended it.
C35_Witness ==
    /\ client_op = "get_saved_tracks" /\ client_pc = "returned"
    /\ requested = <<0, PageLimit>>
    /\ \E k \in 1..Len(remote_pages[1].items) :
          ~Found(remote_pages[1].items[k].track)
    /\ Len(collected) >= 2
    /\ Len(collected) < Len(ServedItems(2))

\* ------------------------------------------------------------------ C31
\* The remote listings over the playlists P whose item lists hold at most n
\* items drawn from T.
Listings(P, T, n) ==
    UNION {[D -> [snapshot_id : RemoteSnapshots,
                  items : UNION {[1..m -> T] : m \in 0..n}]]
              : D \in SUBSET P}

\* Track ids with one track more, so that a remote playlist can hold
\* different tracks at one position at different times.
WiderTrackIds == 1..(NumTracks + 1)

\* Between two commands the user edits remote playlists: a playlist appears,
\* or gets a later revision with any membership over the wider track ids.
RemoteEdit ==
    /\ pc = "idle"
    /\ \E new \in Listings(PlaylistIds, WiderTrackIds, MaxItems) :
        /\ DOMAIN remote_playlists \subseteq DOMAIN new
        /\ \A p \in DOMAIN remote_playlists :
              new[p] = remote_playlists[p] \/ LaterRevision(remote_playlists[p], new[p])
        /\ remote_playlists' = new
    /\ remote_playlists' /= remote_playlists
    /\ prev_completed' = FALSE
    /\ UNCHANGED <<storeVars, remote_saved, pc, cmd, clear, localVars, exit_code,
                   histVars, prev_interrupted, configured, db, calls, apiVars,
                   clientVars, fileVars>>

\* The store before the first sync, and a remote library over the wider
\* track ids.
InitEdit ==
    /\ tracks = {} /\ playlists = {} /\ playlist_tracks = EmptyBag
    /\ saved_tracks = {}
    /\ remote_saved \in SavedItemSeqs
    /\ remote_playlists \in Listings(PlaylistIds, WiderTrackIds, MaxItems)
    /\ prev_interrupted = NoInterrupt
    /\ configured \in BOOLEAN
    /\ last_call = NoCall /\ result = NoResult
    /\ Idle

NextEdit == Next \/ RemoteEdit

\* Every sequence of full syncs and differential syncs from the empty store
\* against remote playlists that are edited between the commands.
SpecEdit == InitEdit /\ [][NextEdit]_vars

\* C31: after any sequence of full syncs (with or without clear) and
\* differential syncs against a remote that changes between the passes, no
\* two relationship rows of one playlist carry the same position.
C31_PositionsAreUnique ==
    ~InPass =>
        \A r1, r2 \in DOMAIN playlist_tracks :
            (r1.playlist_id = r2.playlist_id /\ r1.position = r2.position)
                => (r1 = r2 /\ playlist_tracks[r1] = 1)

\* ------------------------------------------------------------------ C32
\* A store over two playlists as earlier syncs can have left it, and a remote
\* library over two playlists; the item lists hold one item at most.
InitPair ==
    /\ \E S \in SUBSET TrackIds :
        /\ tracks = {TrackDoc(t) : t \in S}
        /\ \E V \in SUBSET S : saved_tracks = {SavedDoc(t, OldAddedAt) : t \in V}
        /\ \E D \in SUBSET MorePlaylistIds, f \in [MorePlaylistIds -> Markers \cup {None}] :
              /\ playlists = {PlaylistDoc(p, f[p]) : p \in D}
              /\ \E R \in SUBSET {Rel(p, t, 0) : p \in D, t \in S} :
                    playlist_tracks = SetToBag(R)
    /\ remote_saved \in {s \in SavedItemSeqs : Len(s) <= 1}
    /\ remote_playlists \in Listings(MorePlaylistIds, TrackIds \cup {Null}, 1)
    /\ prev_interrupted = NoInterrupt
    /\ configured \in BOOLEAN
    /\ last_call = NoCall /\ result = NoResult
    /\ Idle

\* The steps of differential sync, its abort and its end.
NextDiff ==
    \/ DiffStart \/ DiffGetUser \/ DiffCompareSaved \/ DiffFetchSaved
    \/ DiffClearSaved \/ DiffWriteSaved \/ DiffGetPlaylists \/ DiffCheck
    \/ DiffInsertPlaylist \/ DiffFetchTracks \/ DiffClearTracks
    \/ DiffSaveTrack \/ DiffCommitSnapshot
    \/ Abort \/ Finish

\* Differential syncs, aborted ones included, over two playlists.
SpecPair == InitPair /\ [][NextDiff]_vars

\* The playlist that differential sync is updating: the one of the current
\* iteration, from its metadata upsert to its marker step.
Updating(p) ==
    /\ pc \in {"d_insert_pl", "d_fetch", "d_clear", "d_save", "d_snapshot"}
    /\ cur.id = p

\* The relationship rows (each as often as stored) and the record of p.
RowsAndRecord(store, p) ==
    [rows |-> search_rows(store.playlist_tracks, "playlist_id", p),
     record |-> get_playlist(store.playlists, p)]

Stored == [playlist_tracks |-> playlist_tracks, playlists |-> playlists]
StoredNext == [playlist_tracks |-> playlist_tracks', playlists |-> playlists']

\* C32: a step of differential sync changes the relationship rows and the
\* record of no playlist but the one it is updating, and removes no row of the
\* tracks table and no row of the playlists table; throughout the command a
\* skipped playlist, and a local playlist that the remote listing does not
\* contain, have the rows and the record they had when the command started.
C32_DiffTouchesOnlyUpdatedPlaylist ==
    /\ [][cmd = "sync_diff" =>
            /\ \A q \in MorePlaylistIds :
                  ~Updating(q) => RowsAndRecord(StoredNext, q) = RowsAndRecord(Stored, q)
            /\ \A d \in tracks : Found(get_track(tracks', d.id))
            /\ \A d \in playlists : Found(get_playlist(playlists', d.id))]_vars
    /\ []((cmd = "sync_diff" /\ Started) =>
            \A q \in MorePlaylistIds :
                (outcome[q] = "skipped" \/ q \notin RemoteIds)
                    => RowsAndRecord(Stored, q) = RowsAndRecord(pre, q))

\* A differential sync has completed over two playlists with local rows: it
\* has replaced the rows of the first and skipped the second.
C32_Witness ==
    /\ cmd = "sync_diff" /\ pc = "done"
    /\ outcome[1] = "updated" /\ outcome[2] = "skipped"
    /\ RowsAndRecord(Stored, 1) /= RowsAndRecord(pre, 1)
    /\ RowsAndRecord(pre, 1).rows /= EmptyBag
    /\ RowsAndRecord(Stored, 2).rows /= EmptyBag

====
